---- MODULE Spec2Model ----
(***************************************************************************)
(* git-repo-explorer: the streaming tree materializer of                   *)
(* src/app/api/v1/repo/streaming/route.ts (makeGithubDataIterator) and the *)
(* client stream decoder of src/app/[owner]/[repo]/_lib/stream-processing  *)
(* (extractValidJson, processJsonLine, tryFixAndParseMultipleJsons and the *)
(* read loop of useRepositoryFiles).                                       *)
(***************************************************************************)
EXTENDS Integers, Sequences, FiniteSets, TLC

VARIABLES
    gen,        \* frame of one makeGithubDataIterator call: its locals, its
                \* suspension point (pc) and the events it has yielded
    calls,      \* remote calls issued by the traversal, each with its outcome
    budget,     \* tree entries the remote may still return (bounds the repository)
    wideLeft,   \* whether the remote may still answer with the wide directory
    cl,         \* the client hook: its state, the locals of one run of
                \* fetchRepositoryFiles, the lines and the callbacks handed on so far
    wire,       \* bytes of the response the client has not read yet
    input,      \* all bytes of the response
    scan,       \* frame of one tryFixAndParseMultipleJsons call
    lib         \* frame of one call of a library function or of the POST
                \* handler: its arguments, its position, the remote requests it
                \* issued and its outcome

vars == <<gen, calls, budget, wideLeft, cl, wire, input, scan, lib>>
serverSide == <<gen, calls, budget, wideLeft>>
clientSide == <<cl, wire, input, scan>>

(***************************************************************************)
(* Bounds of the remote repository.                                        *)
(***************************************************************************)
\* Total number of tree entries over all freely chosen listings of one traversal.
MaxItems == 4
\* Number of distinct blobs in the one wide directory the remote may return.
WideLen == 10
\* Number of segments (lines, with or without their newline) of a response text.
MaxLines == 2
\* Largest number of bytes of a chunk that is not the whole rest of the response.
MaxChunk == 2
\* Number of valid objects in a buffer handed to the scanner.
MaxObjects == 3

\* route.ts:170, an interim status after every 5th new file of a directory.
StatusEvery == 5

BlobShas == {"b1", "b2"}
TreeShas == {"t1", "t2", "t3"}
\* The commit SHA of the branch (branchData.commit.sha), the root of the traversal.
CommitSha == "c0"
BranchName == "main"

\* The text of a SHA.
ShaText(sha) ==
    CASE sha = "b1" -> <<"b", "1">> [] sha = "b2" -> <<"b", "2">> [] sha = "b3" -> <<"b", "3">>
      [] sha = "b4" -> <<"b", "4">> [] sha = "b5" -> <<"b", "5">> [] sha = "b6" -> <<"b", "6">>
      [] sha = "b7" -> <<"b", "7">> [] sha = "b8" -> <<"b", "8">> [] sha = "b9" -> <<"b", "9">>
      [] sha = "b10" -> <<"b", "1", "0">> [] sha = "b11" -> <<"b", "1", "1">>
      [] sha = "t1" -> <<"t", "1">> [] sha = "t2" -> <<"t", "2">> [] sha = "t3" -> <<"t", "3">>
      [] sha = "c0" -> <<"c", "0">>

\* The path segment under which the remote lists an object, a text.  One
\* directory has a name that reads like a progress message.
SegmentOf(sha) ==
    CASE sha = "b1" -> <<"f", "i", "l", "e", "1", ".", "t", "x", "t">>
      [] sha = "b2" -> <<"f", "i", "l", "e", "2", ".", "t", "x", "t">>
      [] sha = "t1" -> <<"f", "o", "l", "d", "e", "r", "1">>
      [] sha = "t3" -> <<"t", "o", "t", "a", "l", ":", " ", "9">>
      [] OTHER -> ShaText(sha)

\* The size of a blob in bytes; b3 is an empty file.
SizeOf(sha) ==
    CASE sha = "b1" -> 10
      [] sha = "b2" -> 20
      [] sha = "b3" -> 0
      [] OTHER -> 1

\* One entry of a tree listing (GitHubTreeItem): the fields the traversal and
\* the client read.  The remote reports a size for blobs only.
Item(type, sha) ==
    IF type = "blob"
    THEN [type |-> type, sha |-> sha, path |-> SegmentOf(sha), size |-> SizeOf(sha)]
    ELSE [type |-> type, sha |-> sha, path |-> SegmentOf(sha)]

Entries == {Item("blob", s) : s \in BlobShas} \cup {Item("tree", s) : s \in TreeShas}

\* No call is in progress.
NoCall == [op |-> "none", pc |-> "idle"]

SeqsUpTo(S, n) == UNION {[1..k -> S] : k \in 0..n}

\* A directory of WideLen distinct blobs b1, b2, ... (includes the shared BlobShas).
WideListing == [i \in 1..WideLen |-> Item("blob", "b" \o ToString(i))]

\* How getBranch can fail: the statusText of the non-ok response.
BranchFailures == {"Not Found", "Internal Server Error"}

----------------------------------------------------------------------------
(***************************************************************************)
(* The generator frame.                                                    *)
(***************************************************************************)
GenInit ==
    [pc |-> "start", events |-> <<>>,
     yieldedBlobShas |-> {}, fileCounter |-> 0, treeCounter |-> 0,
     rootTree |-> <<>>, ri |-> 0,
     treeFiles |-> <<>>, processedTreeShas |-> {},
     hasNewTrees |-> FALSE, iterationCount |-> 0,
     currentTreeBatch |-> <<>>, bi |-> 0,
     processingCounter |-> 0, filesBatchCounter |-> 0,
     subTree |-> <<>>, si |-> 0]

\* yield streamResponse(ev): the event is handed out and the generator suspends at pc.
Yield(g, ev, pc) == [g EXCEPT !.events = Append(@, ev), !.pc = pc]

\* A status that carries the count of the directory instead of the total.
StatusEvent_BatchCount(g, site, args) ==
    [type |-> "status", site |-> site, args |-> args, files_processed |-> g.filesBatchCounter]

\* A status event; site names the yield statement, args the values in its message.
StatusEvent(g, site, args) ==
    [type |-> "status", site |-> site, args |-> args, files_processed |-> g.fileCounter]

WarningEvent(g, dir) ==
    [type |-> "warning", dir |-> dir, files_processed |-> g.fileCounter]

CompleteEvent(g) ==
    [type |-> "complete", total_files |-> g.fileCounter, total_directories |-> g.treeCounter]

\* route.ts:230-235
Complete(g) == Yield(g, CompleteEvent(g), "y_complete")

\* route.ts:125-136, the head of the generation loop.
WhileHead(g) ==
    IF g.hasNewTrees
    THEN LET g1 == [g EXCEPT !.hasNewTrees = FALSE,
                             !.iterationCount = @ + 1,
                             !.currentTreeBatch = g.treeFiles,
                             !.treeFiles = <<>>]
         IN Yield(g1, StatusEvent(g1, "batch", <<g1.iterationCount, Len(g1.currentTreeBatch)>>),
                  "y_batch")
    ELSE Complete(g)

\* route.ts:213-220
AfterBatchDone(g) ==
    IF Len(g.treeFiles) > 0
    THEN Yield(g, StatusEvent(g, "more_dirs", <<Len(g.treeFiles)>>), "y_moreDirs")
    ELSE WhileHead(g)

\* route.ts:205-211
AfterBatchLoop(g) ==
    IF g.processingCounter > 0
    THEN Yield(g, StatusEvent(g, "batch_done", <<g.iterationCount, g.processingCounter, g.fileCounter>>),
               "y_batchDone")
    ELSE AfterBatchDone(g)

AlreadyProcessed_Never(g, sha) == FALSE

\* route.ts:142
AlreadyProcessed(g, sha) == sha \in g.processedTreeShas

MarkProcessed_Forgets(g, sha) == g.processedTreeShas

\* route.ts:146
MarkProcessed(g, sha) == g.processedTreeShas \cup {sha}

\* route.ts:141-154, the loop over the current batch from its k-th directory on.
RECURSIVE BatchLoop(_, _)
BatchLoop(g, k) ==
    IF k > Len(g.currentTreeBatch) THEN AfterBatchLoop(g)
    ELSE LET treeItem == g.currentTreeBatch[k] IN
         IF AlreadyProcessed(g, treeItem.sha) THEN BatchLoop(g, k + 1)
         ELSE LET g1 == [g EXCEPT !.processedTreeShas = MarkProcessed(g, treeItem.sha),
                                  !.hasNewTrees = TRUE,
                                  !.processingCounter = @ + 1,
                                  !.bi = k]
              IN Yield(g1, StatusEvent(g1, "dir", <<treeItem.path>>), "y_dir")

Push_Front(queue, item) == <<item>> \o queue

\* route.ts:100, 180: treeFiles.push
Push(queue, item) == Append(queue, item)

\* route.ts:164
AlreadyYielded(g, sha) == sha \in g.yieldedBlobShas

ShouldEnqueue_Never(g, sha) == FALSE

\* route.ts:179
ShouldEnqueue(g, sha) == sha \notin g.processedTreeShas

fullPath_SegmentOnly(treeItem, item) == item.path

\* route.ts:160
fullPath(treeItem, item) == treeItem.path \o <<"/">> \o item.path

\* route.ts:159-190, the loop over one fetched subtree from its j-th entry on.
RECURSIVE SubLoop(_, _)
SubLoop(g, j) ==
    IF j > Len(g.subTree)
    THEN Yield(g, StatusEvent(g, "dir_done",
                              <<g.currentTreeBatch[g.bi].path, g.filesBatchCounter, g.fileCounter>>),
               "y_dirDone")
    ELSE LET treeItem == g.currentTreeBatch[g.bi]
             item == g.subTree[j]
             itemWithFullPath == [item EXCEPT !.path = fullPath(treeItem, item)]
         IN IF item.type = "blob"
            THEN IF ~AlreadyYielded(g, item.sha)
                 THEN Yield([g EXCEPT !.si = j], itemWithFullPath, "y_subFile")
                 ELSE SubLoop(g, j + 1)
            ELSE IF ShouldEnqueue(g, item.sha)
                 THEN SubLoop([g EXCEPT !.treeFiles = Push(@, itemWithFullPath),
                                        !.treeCounter = @ + 1], j + 1)
                 ELSE SubLoop(g, j + 1)

\* route.ts:112-123
AfterRootProcessed(g) ==
    LET g1 == [g EXCEPT !.processedTreeShas = {}] IN
    IF Len(g1.treeFiles) > 0
    THEN Yield(g1, StatusEvent(g1, "dirs_found", <<Len(g1.treeFiles)>>), "y_dirsFound")
    ELSE WhileHead([g1 EXCEPT !.hasNewTrees = TRUE, !.iterationCount = 0])

\* route.ts:104-110
AfterRootLoop(g) ==
    IF g.fileCounter > 0
    THEN Yield(g, StatusEvent(g, "root_processed", <<g.fileCounter>>), "y_rootProcessed")
    ELSE AfterRootProcessed(g)

\* route.ts:93-102, the loop over the root tree from its i-th entry on.
RECURSIVE RootLoop(_, _)
RootLoop(g, i) ==
    IF i > Len(g.rootTree) THEN AfterRootLoop(g)
    ELSE LET item == g.rootTree[i] IN
         IF item.type = "blob"
         THEN Yield([g EXCEPT !.ri = i], item, "y_rootFile")
         ELSE RootLoop([g EXCEPT !.treeFiles = Push(@, item),
                                 !.treeCounter = @ + 1], i + 1)

----------------------------------------------------------------------------
(***************************************************************************)
(* The remote (GitHubClient seen from the traversal).                      *)
(***************************************************************************)
Call(op, sha, path) ==
    [op |-> op, sha |-> sha, path |-> path, batch |-> gen.iterationCount,
     status |-> "pending", tree |-> <<>>]

\* Every directory left in the batch is asked for at once.
Issue_WholeBatch(op, sha, path) ==
    IF gen.pc = "y_dir"
    THEN calls' = calls \o [k \in 1..(Len(gen.currentTreeBatch) - gen.bi + 1) |->
                               Call(op, gen.currentTreeBatch[Len(gen.currentTreeBatch) - k + 1].sha,
                                    gen.currentTreeBatch[Len(gen.currentTreeBatch) - k + 1].path)]
    ELSE calls' = Append(calls, Call(op, sha, path))

\* The call is made: githubClient.getBranch / getTreeFiles up to its await.
Issue(op, sha, path) == calls' = Append(calls, Call(op, sha, path))

Settle(status, tree) ==
    calls' = [calls EXCEPT ![Len(calls)] = [@ EXCEPT !.status = status, !.tree = tree]]

\* The listings the remote can answer with: any listing within the budget, or
\* (once) the wide directory.
FreeListings == SeqsUpTo(Entries, budget)

\* getTreeFiles resolves with listing tree.
Answer(tree, wide) ==
    /\ Settle("ok", tree)
    /\ IF wide
       THEN wideLeft /\ wideLeft' = FALSE /\ UNCHANGED budget
       ELSE budget' = budget - Len(tree) /\ UNCHANGED wideLeft
    /\ UNCHANGED <<clientSide, lib>>

Reject ==
    /\ Settle("fail", <<>>)
    /\ UNCHANGED <<budget, wideLeft, clientSide, lib>>

----------------------------------------------------------------------------
(***************************************************************************)
(* The steps of makeGithubDataIterator, each from one suspension point     *)
(* (an await or a yield) to the next.                                      *)
(***************************************************************************)
\* route.ts:62, the first next() runs up to the await of getBranch.
Start ==
    /\ gen.pc = "start"
    /\ gen' = [gen EXCEPT !.pc = "awaitBranch"]
    /\ Issue("getBranch", BranchName, <<>>)
    /\ UNCHANGED <<budget, wideLeft, clientSide, lib>>

\* route.ts:62-63
GetBranchOk ==
    /\ gen.pc = "awaitBranch"
    /\ Settle("ok", <<>>)
    /\ gen' = Yield(gen, [type |-> "branch", name |-> BranchName], "y_branch")
    /\ UNCHANGED <<budget, wideLeft, clientSide, lib>>

\* route.ts:64-69
GetBranchFail ==
    /\ gen.pc = "awaitBranch"
    /\ \E statusText \in BranchFailures :
          /\ Settle(statusText, <<>>)
          /\ gen' = Yield(gen, [type |-> "error", site |-> "branch", cause |-> statusText],
                          "y_branchError")
    /\ UNCHANGED <<budget, wideLeft, clientSide, lib>>

ResumeBranchError_FallThrough ==
    /\ gen.pc = "y_branchError"
    /\ gen' = Yield(gen, StatusEvent(gen, "starting", <<>>), "y_starting")
    /\ UNCHANGED <<calls, budget, wideLeft, clientSide, lib>>

\* route.ts:70
ResumeBranchError ==
    /\ gen.pc = "y_branchError"
    /\ gen' = [gen EXCEPT !.pc = "done"]
    /\ UNCHANGED <<calls, budget, wideLeft, clientSide, lib>>

\* route.ts:73-79
ResumeBranch ==
    /\ gen.pc = "y_branch"
    /\ gen' = Yield(gen, StatusEvent(gen, "starting", <<>>), "y_starting")
    /\ UNCHANGED <<calls, budget, wideLeft, clientSide, lib>>

\* route.ts:81-85
ResumeStarting ==
    /\ gen.pc = "y_starting"
    /\ gen' = [gen EXCEPT !.treeFiles = <<>>, !.pc = "awaitRoot"]
    /\ Issue("getTreeFiles", CommitSha, <<>>)
    /\ UNCHANGED <<budget, wideLeft, clientSide, lib>>

\* route.ts:85-91
GetRootTreeOk ==
    /\ gen.pc = "awaitRoot"
    /\ \E tree \in FreeListings :
          /\ Answer(tree, FALSE)
          /\ LET g1 == [gen EXCEPT !.rootTree = tree]
             IN gen' = Yield(g1, StatusEvent(g1, "root_found", <<Len(tree)>>), "y_rootFound")

\* route.ts:221-227, a failed root fetch lands in the inner catch.
GetRootTreeFail ==
    /\ gen.pc = "awaitRoot"
    /\ Reject
    /\ gen' = Yield(gen, [type |-> "error", site |-> "structure", cause |-> "fetch"],
                    "y_fetchError")

\* route.ts:93
ResumeRootFound ==
    /\ gen.pc = "y_rootFound"
    /\ gen' = RootLoop(gen, 1)
    /\ UNCHANGED <<calls, budget, wideLeft, clientSide, lib>>

\* route.ts:96-97, then the rest of the root loop
ResumeRootFile ==
    /\ gen.pc = "y_rootFile"
    /\ gen' = RootLoop([gen EXCEPT !.yieldedBlobShas = @ \cup {gen.rootTree[gen.ri].sha},
                                   !.fileCounter = @ + 1], gen.ri + 1)
    /\ UNCHANGED <<calls, budget, wideLeft, clientSide, lib>>

\* route.ts:110-112
ResumeRootProcessed ==
    /\ gen.pc = "y_rootProcessed"
    /\ gen' = AfterRootProcessed(gen)
    /\ UNCHANGED <<calls, budget, wideLeft, clientSide, lib>>

\* route.ts:120-125
ResumeDirsFound ==
    /\ gen.pc = "y_dirsFound"
    /\ gen' = WhileHead([gen EXCEPT !.hasNewTrees = TRUE, !.iterationCount = 0])
    /\ UNCHANGED <<calls, budget, wideLeft, clientSide, lib>>

\* route.ts:136-141
ResumeBatch ==
    /\ gen.pc = "y_batch"
    /\ gen' = BatchLoop([gen EXCEPT !.processingCounter = 0, !.filesBatchCounter = 0], 1)
    /\ UNCHANGED <<calls, budget, wideLeft, clientSide, lib>>

\* route.ts:154-157
ResumeDir ==
    /\ gen.pc = "y_dir"
    /\ gen' = [gen EXCEPT !.pc = "awaitSub"]
    /\ Issue("getTreeFiles", gen.currentTreeBatch[gen.bi].sha, gen.currentTreeBatch[gen.bi].path)
    /\ UNCHANGED <<budget, wideLeft, clientSide, lib>>

\* route.ts:157-159
GetSubTreeOk ==
    /\ gen.pc = "awaitSub"
    /\ \E tree \in FreeListings :
          /\ Answer(tree, FALSE)
          /\ gen' = SubLoop([gen EXCEPT !.subTree = tree], 1)

\* route.ts:157-159, the remote answers with the wide directory.
GetSubTreeWide ==
    /\ gen.pc = "awaitSub"
    /\ Answer(WideListing, TRUE)
    /\ gen' = SubLoop([gen EXCEPT !.subTree = WideListing], 1)

SubTreeFailed_Rethrow(g) ==
    Yield(g, [type |-> "error", site |-> "structure", cause |-> "fetch"], "y_fetchError")

\* The per-directory catch of route.ts:193-202.
SubTreeFailed(g) == Yield(g, WarningEvent(g, g.currentTreeBatch[g.bi].path), "y_warning")

\* route.ts:157, 193-201
GetSubTreeFail ==
    /\ gen.pc = "awaitSub"
    /\ Reject
    /\ gen' = SubTreeFailed(gen)

\* route.ts:166-176
ResumeSubFile ==
    /\ gen.pc = "y_subFile"
    /\ LET g1 == [gen EXCEPT !.yieldedBlobShas = @ \cup {gen.subTree[gen.si].sha},
                             !.fileCounter = @ + 1,
                             !.filesBatchCounter = @ + 1]
       IN gen' = IF g1.filesBatchCounter % StatusEvery = 0
                 THEN Yield(g1, StatusEvent(g1, "five", <<g1.filesBatchCounter, g1.fileCounter>>),
                            "y_five")
                 ELSE SubLoop(g1, g1.si + 1)
    /\ UNCHANGED <<calls, budget, wideLeft, clientSide, lib>>

\* route.ts:176-177
ResumeFive ==
    /\ gen.pc = "y_five"
    /\ gen' = SubLoop(gen, gen.si + 1)
    /\ UNCHANGED <<calls, budget, wideLeft, clientSide, lib>>

\* The counter is carried into the next directory.
ResumeDirDone_KeepsCounter ==
    /\ gen.pc = "y_dirDone"
    /\ gen' = BatchLoop(gen, gen.bi + 1)
    /\ UNCHANGED <<calls, budget, wideLeft, clientSide, lib>>

\* route.ts:191
ResumeDirDone ==
    /\ gen.pc = "y_dirDone"
    /\ gen' = BatchLoop([gen EXCEPT !.filesBatchCounter = 0], gen.bi + 1)
    /\ UNCHANGED <<calls, budget, wideLeft, clientSide, lib>>

\* route.ts:201-203
ResumeWarning ==
    /\ gen.pc = "y_warning"
    /\ gen' = BatchLoop(gen, gen.bi + 1)
    /\ UNCHANGED <<calls, budget, wideLeft, clientSide, lib>>

\* route.ts:211-213
ResumeBatchDone ==
    /\ gen.pc = "y_batchDone"
    /\ gen' = AfterBatchDone(gen)
    /\ UNCHANGED <<calls, budget, wideLeft, clientSide, lib>>

\* route.ts:219-220, 125
ResumeMoreDirs ==
    /\ gen.pc = "y_moreDirs"
    /\ gen' = WhileHead(gen)
    /\ UNCHANGED <<calls, budget, wideLeft, clientSide, lib>>

\* route.ts:228-235, after the inner catch the function goes on to `complete`.
ResumeFetchError ==
    /\ gen.pc = "y_fetchError"
    /\ gen' = Complete(gen)
    /\ UNCHANGED <<calls, budget, wideLeft, clientSide, lib>>

\* route.ts:235-244, the generator returns.
ResumeComplete ==
    /\ gen.pc = "y_complete"
    /\ gen' = [gen EXCEPT !.pc = "done"]
    /\ UNCHANGED <<calls, budget, wideLeft, clientSide, lib>>


----------------------------------------------------------------------------
(***************************************************************************)
(* Text.  A text is a sequence of one-character strings.  JsonParse is     *)
(* JSON.parse; a \uXXXX escape is accepted and kept as a marker of its    *)
(* four digits, "<BS>" stands for the backspace character.                 *)
(***************************************************************************)
WS == {" ", "\t", "\n", "\r"}

\* The white space of String.prototype.trim and of a regular expression's \s.
ReWS == WS \cup {"\f"}
Digits == {"0", "1", "2", "3", "4", "5", "6", "7", "8", "9"}
HexDigits == Digits \cup {"a", "b", "c", "d", "e", "f", "A", "B", "C", "D", "E", "F"}
DigitVal == ("0" :> 0) @@ ("1" :> 1) @@ ("2" :> 2) @@ ("3" :> 3) @@ ("4" :> 4) @@ ("5" :> 5) @@ ("6" :> 6) @@ ("7" :> 7) @@ ("8" :> 8) @@ ("9" :> 9)
LowerOf == ("A" :> "a") @@ ("B" :> "b") @@ ("C" :> "c") @@ ("D" :> "d") @@ ("E" :> "e") @@ ("F" :> "f") @@ ("G" :> "g") @@ ("H" :> "h") @@ ("I" :> "i") @@ ("J" :> "j") @@ ("K" :> "k") @@ ("L" :> "l") @@ ("M" :> "m") @@ ("N" :> "n") @@ ("O" :> "o") @@ ("P" :> "p") @@ ("Q" :> "q") @@ ("R" :> "r") @@ ("S" :> "s") @@ ("T" :> "t") @@ ("U" :> "u") @@ ("V" :> "v") @@ ("W" :> "w") @@ ("X" :> "x") @@ ("Y" :> "y") @@ ("Z" :> "z")

Lower(c) == IF c \in DOMAIN LowerOf THEN LowerOf[c] ELSE c

\* s[i], or "" past the end of s.
At(s, i) == IF i >= 1 /\ i <= Len(s) THEN s[i] ELSE ""

\* String.prototype.slice(n) and substring(0, n)
Slice(s, n) == SubSeq(s, n + 1, Len(s))
Prefix(s, n) == SubSeq(s, 1, n)

\* The least element of a non-empty set of positions.
Leftmost(S) == CHOOSE i \in S : \A j \in S : i <= j

\* String.prototype.indexOf(c), 0-based, -1 when absent.
IndexOf(s, c) ==
    IF \E i \in DOMAIN s : s[i] = c THEN Leftmost({i \in DOMAIN s : s[i] = c}) - 1 ELSE -1

\* String.prototype.trim() leaves something.
TrimNonEmpty(s) == \E i \in DOMAIN s : s[i] \notin ReWS

RECURSIVE SkipWs(_, _)
SkipWs(s, i) == IF At(s, i) \in WS THEN SkipWs(s, i + 1) ELSE i

RECURSIVE SkipDigits(_, _)
SkipDigits(s, i) == IF At(s, i) \in Digits THEN SkipDigits(s, i + 1) ELSE i

\* The value of the digits s[a..b-1] appended to the number n.
RECURSIVE DigitsValue(_, _, _, _)
DigitsValue(s, a, b, n) ==
    IF a >= b THEN n ELSE DigitsValue(s, a + 1, b, 10 * n + DigitVal[s[a]])

\* Whether text lit occurs in s at position i.
TextAt(s, i, lit) ==
    /\ i + Len(lit) - 1 <= Len(s)
    /\ \A k \in DOMAIN lit : s[i + k - 1] = lit[k]

\* Whether text lit occurs in s at position i, letter case ignored.
LitAt(s, i, lit) ==
    /\ i + Len(lit) - 1 <= Len(s)
    /\ \A k \in DOMAIN lit : Lower(s[i + k - 1]) = Lower(lit[k])

(***************************************************************************)
(* JSON values: undefined, null/true/false, numbers n * 10^e in normal     *)
(* form, strings, arrays, objects as the sequence of their members.        *)
(***************************************************************************)
Undefined == [k |-> "undefined"]
JsNull == [k |-> "null"]
JsBool(b) == [k |-> "bool", b |-> b]
JsStr(s) == [k |-> "str", s |-> s]
JsObj(f) == [k |-> "obj", f |-> f]
JsArr(a) == [k |-> "arr", a |-> a]

RECURSIVE JsNum(_, _)
JsNum(n, e) ==
    IF n = 0 THEN [k |-> "num", n |-> 0, e |-> 0]
    ELSE IF e > 0 THEN JsNum(n * 10, e - 1)
    ELSE IF e < 0 /\ n % 10 = 0 THEN JsNum(n \div 10, e + 1)
    ELSE [k |-> "num", n |-> n, e |-> e]

IsNumber(v) == v.k = "num"
IsString(v) == v.k = "str"

\* obj[key], the last member of that name, or undefined.
RECURSIVE GetFrom(_, _, _)
GetFrom(f, key, i) ==
    IF i < 1 THEN Undefined
    ELSE IF f[i].key = key THEN f[i].val ELSE GetFrom(f, key, i - 1)
Get(v, key) == IF v.k = "obj" THEN GetFrom(v.f, key, Len(v.f)) ELSE Undefined

ParseFail == [ok |-> FALSE, i |-> 0, v |-> Undefined]
Parsed(i, v) == [ok |-> TRUE, i |-> i, v |-> v]

Escapes ==
    ("\"" :> "\"") @@ ("\\" :> "\\") @@ ("/" :> "/") @@ ("b" :> "<BS>") @@
    ("f" :> "\f") @@ ("n" :> "\n") @@ ("r" :> "\r") @@ ("t" :> "\t")

\* The greatest element of a non-empty set of positions.
Rightmost(S) == CHOOSE i \in S : \A j \in S : j <= i

\* The number of backslashes right before s[p], counted back to s[j].
BackslashesBefore(s, j, p) ==
    IF p = j \/ s[p - 1] # "\\" THEN 0
    ELSE p - 1 - Rightmost({j - 1} \cup {k \in j..(p - 1) : s[k] # "\\"})

\* In the string literal whose characters start at s[j]: whether s[p] follows
\* the backslash of an escape, and whether it is a digit of a \u escape.
Escaped(s, j, p) == BackslashesBefore(s, j, p) % 2 = 1
InUnicodeEscape(s, j, p) ==
    \E h \in 1..4 : p - h > j /\ s[p - h] = "u" /\ Escaped(s, j, p - h)

\* The quotes that can close the literal.
StringEnds(s, j) == {p \in j..Len(s) : s[p] = "\"" /\ ~Escaped(s, j, p)}

\* Whether JSON.parse accepts s[p] inside the literal.
CharOk(s, j, p) ==
    IF Escaped(s, j, p)
    THEN \/ s[p] \in DOMAIN Escapes
         \/ s[p] = "u" /\ \A h \in 1..4 : At(s, p + h) \in HexDigits
    ELSE s[p] \notin {"\n", "\r", "\t", "\f"}

\* What s[p] adds to the value of the literal.
CharOut(s, j, p) ==
    IF Escaped(s, j, p)
    THEN IF s[p] = "u"
         THEN <<"\\u" \o s[p + 1] \o s[p + 2] \o s[p + 3] \o s[p + 4]>>
         ELSE <<Escapes[s[p]]>>
    ELSE IF s[p] = "\\" \/ InUnicodeEscape(s, j, p) THEN <<>>
    ELSE <<s[p]>>

\* The value of the characters s[lo..hi] of the literal; the range is
\* evaluated by halves.
RECURSIVE StringChars(_, _, _, _)
StringChars(s, j, lo, hi) ==
    IF lo > hi THEN <<>>
    ELSE IF lo = hi THEN CharOut(s, j, lo)
    ELSE StringChars(s, j, lo, (lo + hi) \div 2) \o StringChars(s, j, (lo + hi) \div 2 + 1, hi)

StringBody(s, j, end) ==
    IF \A p \in j..(end - 1) : CharOk(s, j, p)
    THEN Parsed(end + 1, JsStr(StringChars(s, j, j, end - 1)))
    ELSE ParseFail

StringClosed(s, j, ends) == IF ends = {} THEN ParseFail ELSE StringBody(s, j, Leftmost(ends))

\* The rest of a string literal whose characters start at s[j].
ParseStringBody(s, j) == StringClosed(s, j, StringEnds(s, j))

\* The value of a number literal whose parts are located: its digits before
\* the point are s[a..b-1], after the point s[b+1..c-1], of the exponent
\* s[sgn..d-1].
NumberValue(s, neg, a, b, c, sgn, d) ==
    LET hasFrac == At(s, b) = "."
        hasExp == At(s, c) \in {"e", "E"}
        mant == DigitsValue(s, b + 1, c, DigitsValue(s, a, b, 0))
        exp == IF hasExp THEN DigitsValue(s, sgn, d, 0) ELSE 0
    IN IF b = a \/ (hasFrac /\ c = b + 1) \/ (hasExp /\ d = sgn) THEN ParseFail
       ELSE Parsed(d, JsNum((IF neg THEN -1 ELSE 1) * mant,
                            (IF hasExp /\ At(s, c + 1) = "-" THEN -1 ELSE 1) * exp
                              - (IF hasFrac THEN c - (b + 1) ELSE 0)))

NumberExp(s, neg, a, b, c, sgn) ==
    NumberValue(s, neg, a, b, c, sgn,
                IF At(s, c) \in {"e", "E"} THEN SkipDigits(s, sgn) ELSE c)

NumberFrac(s, neg, a, b, c) ==
    NumberExp(s, neg, a, b, c,
              IF At(s, c) \in {"e", "E"} /\ At(s, c + 1) \in {"+", "-"} THEN c + 2 ELSE c + 1)

NumberInt(s, neg, a, b) ==
    NumberFrac(s, neg, a, b, IF At(s, b) = "." THEN SkipDigits(s, b + 1) ELSE b)

NumberSign(s, neg, a) ==
    NumberInt(s, neg, a, IF At(s, a) = "0" THEN a + 1 ELSE SkipDigits(s, a))

\* A number literal at s[i]: -? int frac? exp?
ParseNumber(s, i) == NumberSign(s, At(s, i) = "-", IF At(s, i) = "-" THEN i + 1 ELSE i)

RECURSIVE ParseValue(_, _)
RECURSIVE ParseMembers(_, _, _)
RECURSIVE ParseElements(_, _, _)

\* An object's members, parsed one step after the other from the key at s[j]
\* on: the key, the colon, the value, then "," or "}".
MemberNext(s, members, next) ==
    IF At(s, next) = "}" THEN Parsed(next + 1, JsObj(members))
    ELSE IF At(s, next) = "," THEN ParseMembers(s, SkipWs(s, next + 1), members)
    ELSE ParseFail

MemberValue(s, acc, key, val) ==
    IF ~val.ok THEN ParseFail
    ELSE MemberNext(s, Append(acc, [key |-> key, val |-> val.v]), SkipWs(s, val.i))

MemberColon(s, acc, key, colon) ==
    IF At(s, colon) # ":" THEN ParseFail
    ELSE MemberValue(s, acc, key, ParseValue(s, SkipWs(s, colon + 1)))

MemberKey(s, acc, key) ==
    IF ~key.ok THEN ParseFail ELSE MemberColon(s, acc, key.v.s, SkipWs(s, key.i))

ParseMembers(s, j, acc) ==
    IF At(s, j) # "\"" THEN ParseFail ELSE MemberKey(s, acc, ParseStringBody(s, j + 1))

\* An array's elements from the value at s[j] on.
ElementNext(s, elements, next) ==
    IF At(s, next) = "]" THEN Parsed(next + 1, JsArr(elements))
    ELSE IF At(s, next) = "," THEN ParseElements(s, SkipWs(s, next + 1), elements)
    ELSE ParseFail

ElementValue(s, acc, val) ==
    IF ~val.ok THEN ParseFail ELSE ElementNext(s, Append(acc, val.v), SkipWs(s, val.i))

ParseElements(s, j, acc) == ElementValue(s, acc, ParseValue(s, j))

\* One JSON value starting at s[i].
ParseValue(s, i) ==
    LET c == At(s, i) IN
    IF c = "{" THEN
        LET j == SkipWs(s, i + 1) IN
        IF At(s, j) = "}" THEN Parsed(j + 1, JsObj(<<>>)) ELSE ParseMembers(s, j, <<>>)
    ELSE IF c = "[" THEN
        LET j == SkipWs(s, i + 1) IN
        IF At(s, j) = "]" THEN Parsed(j + 1, JsArr(<<>>)) ELSE ParseElements(s, j, <<>>)
    ELSE IF c = "\"" THEN ParseStringBody(s, i + 1)
    ELSE IF c \in Digits \cup {"-"} THEN ParseNumber(s, i)
    ELSE IF TextAt(s, i, <<"t", "r", "u", "e">>) THEN Parsed(i + 4, JsBool(TRUE))
    ELSE IF TextAt(s, i, <<"f", "a", "l", "s", "e">>) THEN Parsed(i + 5, JsBool(FALSE))
    ELSE IF TextAt(s, i, <<"n", "u", "l", "l">>) THEN Parsed(i + 4, JsNull)
    ELSE ParseFail

\* A parsed value followed by nothing but white space.
WholeValue(s, r) == IF r.ok /\ SkipWs(s, r.i) > Len(s) THEN r ELSE ParseFail

\* JSON.parse(s): ok is false where JSON.parse throws.
JsonParse(s) == WholeValue(s, ParseValue(s, SkipWs(s, 1)))

----------------------------------------------------------------------------
(***************************************************************************)
(* Numbers and texts as the client computes with them.  Numbers are exact  *)
(* decimals n * 10^e; texts of numbers are in plain decimal notation.      *)
(***************************************************************************)
\* The white space String.prototype.trim and Number() strip, skipped from s[i].
RECURSIVE SkipReWs(_, _)
SkipReWs(s, i) == IF At(s, i) \in ReWS THEN SkipReWs(s, i + 1) ELSE i

NaN == [k |-> "nan"]

RECURSIVE Pow10(_)
Pow10(k) == IF k <= 0 THEN 1 ELSE 10 * Pow10(k - 1)

\* a + b and a > b on numbers.
NumAdd(a, b) ==
    LET e == IF a.e < b.e THEN a.e ELSE b.e
    IN JsNum(a.n * Pow10(a.e - e) + b.n * Pow10(b.e - e), e)
NumGt(a, b) == a.n * Pow10(0 - b.e) > b.n * Pow10(0 - a.e)

DigitChar == [d \in 0..9 |-> CHOOSE c \in Digits : DigitVal[c] = d]

RECURSIVE NatText(_)
NatText(n) == IF n < 10 THEN <<DigitChar[n]>> ELSE Append(NatText(n \div 10), DigitChar[n % 10])

RECURSIVE ZeroPad(_, _)
ZeroPad(t, width) == IF Len(t) >= width THEN t ELSE ZeroPad(<<"0">> \o t, width)

\* String(v) of a number.
NumText(v) ==
    LET m == IF v.n < 0 THEN 0 - v.n ELSE v.n
        scale == Pow10(0 - v.e)
    IN (IF v.n < 0 THEN <<"-">> ELSE <<>>) \o NatText(m \div scale)
         \o (IF v.e < 0 THEN <<".">> \o ZeroPad(NatText(m % scale), 0 - v.e) ELSE <<>>)

RECURSIVE JsToString(_)
RECURSIVE JoinFrom(_, _)

\* Array.prototype.join(",") of the elements from a[i] on.
JoinFrom(a, i) ==
    IF i > Len(a) THEN <<>>
    ELSE (IF a[i].k \in {"null", "undefined"} THEN <<>> ELSE JsToString(a[i]))
           \o (IF i < Len(a) THEN <<",">> \o JoinFrom(a, i + 1) ELSE <<>>)

\* String(v), as a template literal and the + operator convert a value.
JsToString(v) ==
    CASE v.k = "str" -> v.s
      [] v.k = "num" -> NumText(v)
      [] v.k = "bool" -> IF v.b THEN <<"t", "r", "u", "e">> ELSE <<"f", "a", "l", "s", "e">>
      [] v.k = "null" -> <<"n", "u", "l", "l">>
      [] v.k = "undefined" -> <<"u", "n", "d", "e", "f", "i", "n", "e", "d">>
      [] v.k = "nan" -> <<"N", "a", "N">>
      [] v.k = "arr" -> JoinFrom(v.a, 1)
      [] OTHER -> <<"[", "o", "b", "j", "e", "c", "t", " ", "O", "b", "j", "e", "c", "t", "]">>

\* Number(text) for blank texts, runs of digits and JSON number literals; every
\* other text converts to NaN.
NumberAt(s, a, b, r) ==
    IF a > Len(s) THEN JsNum(0, 0)
    ELSE IF b > a /\ SkipReWs(s, b) > Len(s) THEN JsNum(DigitsValue(s, a, b, 0), 0)
    ELSE IF r.ok /\ SkipReWs(s, r.i) > Len(s) THEN r.v
    ELSE NaN

NumberFrom(s, a) == NumberAt(s, a, SkipDigits(s, a), ParseNumber(s, a))

StringToNumber(s) == NumberFrom(s, SkipReWs(s, 1))

\* Number(v)
ToNumber(v) ==
    CASE v.k = "num" -> v
      [] v.k = "nan" -> NaN
      [] v.k = "undefined" -> NaN
      [] v.k = "null" -> JsNum(0, 0)
      [] v.k = "bool" -> JsNum(IF v.b THEN 1 ELSE 0, 0)
      [] OTHER -> StringToNumber(JsToString(v))

\* count > ref for a number count.
GtNumber(count, r) == r.k = "num" /\ NumGt(count, r)
Gt(count, ref) == GtNumber(count, ToNumber(ref))

\* ref + 1
PlusOneNumber(r) == IF r.k = "nan" THEN NaN ELSE NumAdd(r, JsNum(1, 0))
PlusOne(ref) ==
    IF ref.k \in {"str", "arr", "obj"} THEN JsStr(Append(JsToString(ref), "1"))
    ELSE PlusOneNumber(ToNumber(ref))

----------------------------------------------------------------------------
(***************************************************************************)
(* stream-processing.ts                                                    *)
(***************************************************************************)
K_type == <<"t", "y", "p", "e">>
K_message == <<"m", "e", "s", "s", "a", "g", "e">>
K_files_processed == <<"f", "i", "l", "e", "s", "_", "p", "r", "o", "c", "e", "s", "s", "e", "d">>
K_name == <<"n", "a", "m", "e">>
K_total_files == <<"t", "o", "t", "a", "l", "_", "f", "i", "l", "e", "s">>
K_path == <<"p", "a", "t", "h">>
K_size == <<"s", "i", "z", "e">>

\* parseInt(text, 10) of the run of digits starting at s[i].
IntAt(s, i) == DigitsValue(s, i, SkipDigits(s, i), 0)

handleStringChar_NoEscape(char, inString, escaped) ==
    IF inString
    THEN IF char = "\"" THEN [inString |-> FALSE, escaped |-> FALSE]
         ELSE [inString |-> TRUE, escaped |-> FALSE]
    ELSE IF char = "\"" THEN [inString |-> TRUE, escaped |-> FALSE]
         ELSE [inString |-> inString, escaped |-> escaped]

\* stream-processing.ts:11-25
handleStringChar(char, inString, escaped) ==
    IF inString
    THEN IF char = "\\" /\ ~escaped THEN [inString |-> TRUE, escaped |-> TRUE]
         ELSE IF char = "\"" /\ ~escaped THEN [inString |-> FALSE, escaped |-> FALSE]
         ELSE [inString |-> TRUE, escaped |-> FALSE]
    ELSE IF char = "\"" THEN [inString |-> TRUE, escaped |-> FALSE]
         ELSE [inString |-> inString, escaped |-> escaped]

\* The result of a function returning string | null.
NoText == [found |-> FALSE, text |-> <<>>]
SomeText(t) == [found |-> TRUE, text |-> t]

\* stream-processing.ts:32-44
validateJsonString(jsonStr) == IF JsonParse(jsonStr).ok THEN SomeText(jsonStr) ELSE NoText

\* stream-processing.ts:52-54, the loop's variables before its first turn.
ExtractStart == [depth |-> 0, inString |-> FALSE, escaped |-> FALSE]

\* Braces count wherever they stand.
ExtractTurn_CountsInStrings(st, char) ==
    LET sc == handleStringChar(char, st.inString, st.escaped)
    IN [depth |-> IF char = "{" THEN st.depth + 1
                  ELSE IF char = "}" THEN st.depth - 1
                  ELSE st.depth,
        inString |-> sc.inString,
        escaped |-> sc.escaped]

\* stream-processing.ts:57-69, what one turn of the loop does to its variables.
ExtractTurn(st, char) ==
    LET sc == handleStringChar(char, st.inString, st.escaped)
    IN [depth |-> IF sc.inString THEN st.depth
                  ELSE IF char = "{" THEN st.depth + 1
                  ELSE IF char = "}" THEN st.depth - 1
                  ELSE st.depth,
        inString |-> sc.inString,
        escaped |-> sc.escaped]

\* The loop's variables after each of the turns for str[lo..hi], taken one
\* after the other from st; the range is evaluated by halves.
RECURSIVE ExtractTurns(_, _, _, _)
TurnsAfter(str, lo, hi, left) == left \o ExtractTurns(str, lo, hi, left[Len(left)])

ExtractTurns(str, lo, hi, st) ==
    IF lo > hi THEN <<>>
    ELSE IF lo = hi THEN <<ExtractTurn(st, str[lo])>>
    ELSE TurnsAfter(str, (lo + hi) \div 2 + 1, hi,
                    ExtractTurns(str, lo, (lo + hi) \div 2, st))

\* stream-processing.ts:66-71, the turns at which the loop returns.
ReturnTurns(str, after) ==
    {i \in DOMAIN str : str[i] = "}" /\ ~after[i].inString /\ after[i].depth = 0}

FirstReturn(str, returns) ==
    IF returns = {} THEN NoText ELSE validateJsonString(Prefix(str, Leftmost(returns)))

\* stream-processing.ts:51-75: the loop returns at the first "}" outside a
\* string that brings depth to 0, with whatever validateJsonString says.
extractValidJson(str) ==
    FirstReturn(str, ReturnTurns(str, ExtractTurns(str, 1, Len(str), ExtractStart)))

\* stream-processing.ts:83, /total:\s*(\d+)/i
TotalStarts(m) ==
    {i \in DOMAIN m : LitAt(m, i, <<"t", "o", "t", "a", "l", ":">>) /\ At(m, SkipReWs(m, i + 6)) \in Digits}

\* stream-processing.ts:84, /(\d+)\s+files\s+(?:loaded|found)/i
FilesLoadedStarts(m) ==
    {i \in DOMAIN m :
        /\ m[i] \in Digits
        /\ LET a == SkipDigits(m, i)
               b == SkipReWs(m, a)
               c == SkipReWs(m, b + 5)
           IN /\ b > a
              /\ LitAt(m, b, <<"f", "i", "l", "e", "s">>)
              /\ c > b + 5
              /\ (LitAt(m, c, <<"l", "o", "a", "d", "e", "d">>) \/ LitAt(m, c, <<"f", "o", "u", "n", "d">>))}

\* stream-processing.ts:85, /processed\s+(\d+)\s+files/i
ProcessedStarts(m) ==
    {i \in DOMAIN m :
        /\ LitAt(m, i, <<"p", "r", "o", "c", "e", "s", "s", "e", "d">>)
        /\ LET a == SkipReWs(m, i + 9)
               b == SkipDigits(m, a)
               c == SkipReWs(m, b)
           IN a > i + 9 /\ b > a /\ c > b /\ LitAt(m, c, <<"f", "i", "l", "e", "s">>)}

\* stream-processing.ts:82-91, on the text of a string message.
handleStatusMessage(m) ==
    IF TotalStarts(m) # {} THEN IntAt(m, SkipReWs(m, Leftmost(TotalStarts(m)) + 6))
    ELSE IF FilesLoadedStarts(m) # {} THEN IntAt(m, Leftmost(FilesLoadedStarts(m)))
    ELSE IF ProcessedStarts(m) # {}
         THEN IntAt(m, SkipReWs(m, Leftmost(ProcessedStarts(m)) + 9))
    ELSE 0

\* Whether a value is truthy.
Truthy(v) ==
    CASE v.k = "bool" -> v.b
      [] v.k = "num" -> v.n # 0
      [] v.k = "str" -> Len(v.s) > 0
      [] v.k \in {"obj", "arr"} -> TRUE
      [] OTHER -> FALSE

\* A number value greater than zero.
Positive(v) == IsNumber(v) /\ v.n > 0

\* One invocation of a callback.
CallOf(cb, args) == [cb |-> cb, args |-> args]

\* What processJsonLine did: the callbacks it invoked and what it returned.
LineResult(cbs, ret) == [calls |-> cbs, ret |-> ret, threw |-> FALSE]

\* stream-processing.ts:112-114
MinedStatus(message, count) ==
    LineResult(<<CallOf("onStatus",
                        <<message, IF count > 0 THEN JsNum(count, 0) ELSE Undefined>>)>>,
               JsBool(count > 0))

\* stream-processing.ts:105-114; a message that is no string has no text the
\* patterns of handleStatusMessage could match.
StatusOf(message, files_processed) ==
    IF ~Truthy(message) THEN LineResult(<<>>, JsBool(FALSE))
    ELSE IF Positive(files_processed)
         THEN LineResult(<<CallOf("onStatus", <<message, files_processed>>)>>, JsBool(TRUE))
    ELSE MinedStatus(message, IF IsString(message) THEN handleStatusMessage(message.s) ELSE 0)

\* stream-processing.ts:99-115
processStatusItem(item) == StatusOf(Get(item, K_message), Get(item, K_files_processed))

isValidFile_AnyPath(file) ==
    /\ file.k = "obj"
    /\ IsString(Get(file, K_path))
    /\ IsNumber(Get(file, K_size))

\* file-utils.ts:33-37
isValidFile(file) ==
    /\ file.k = "obj"
    /\ IsString(Get(file, K_path))
    /\ Len(Get(file, K_path).s) > 0
    /\ IsNumber(Get(file, K_size))

\* `Warning: ${message}`
WarningText(message) ==
    JsStr(<<"W", "a", "r", "n", "i", "n", "g", ":", " ">> \o JsToString(message))

\* stream-processing.ts:155-158
WarningOf(message, files_processed) ==
    LineResult(<<CallOf("onStatus",
                        <<WarningText(message),
                          IF Positive(files_processed) THEN files_processed ELSE Undefined>>)>>,
               JsBool(TRUE))

\* stream-processing.ts:138-167
ProcessJson(json, type) ==
    IF type = JsStr(<<"e", "r", "r", "o", "r">>)
    THEN LineResult(<<CallOf("onError", <<Get(json, K_message)>>)>>, JsBool(FALSE))
    ELSE IF type = JsStr(<<"c", "o", "m", "p", "l", "e", "t", "e">>)
         THEN LineResult(<<CallOf("onComplete", <<Get(json, K_total_files)>>)>>, JsBool(TRUE))
    ELSE IF type = JsStr(<<"b", "r", "a", "n", "c", "h">>)
         THEN LineResult(<<CallOf("onBranch", <<Get(json, K_name)>>)>>, JsBool(TRUE))
    ELSE IF type = JsStr(<<"s", "t", "a", "t", "u", "s">>) THEN processStatusItem(json)
    ELSE IF type = JsStr(<<"w", "a", "r", "n", "i", "n", "g">>)
         THEN WarningOf(Get(json, K_message), Get(json, K_files_processed))
    ELSE IF isValidFile(json) THEN LineResult(<<CallOf("onFile", <<json>>)>>, json)
    ELSE LineResult(<<>>, JsBool(FALSE))

ProcessParsed_Escalates(parsed) ==
    IF ~parsed.ok
    THEN LineResult(<<CallOf("onError", <<JsStr(<<"p", "a", "r", "s", "e">>)>>)>>, JsBool(FALSE))
    ELSE IF parsed.v.k = "null" THEN LineResult(<<>>, JsBool(FALSE))
    ELSE ProcessJson(parsed.v, Get(parsed.v, K_type))

\* stream-processing.ts:135-175; reading json.type of null throws inside the
\* try, and the catch returns false: the function never throws.
ProcessParsed(parsed) ==
    IF ~parsed.ok \/ parsed.v.k = "null" THEN LineResult(<<>>, JsBool(FALSE))
    ELSE ProcessJson(parsed.v, Get(parsed.v, K_type))

\* stream-processing.ts:127-176
processJsonLine(line) == ProcessParsed(JsonParse(line))

SliceReported_One(remaining, obj) == Slice(remaining, 1)

\* stream-processing.ts:194, remaining.slice(obj.length) after a report.
SliceReported(remaining, obj) == Slice(remaining, Len(obj))

\* stream-processing.ts:192-197 and 201-205
IterationEnd(reported, rest) ==
    [reported |-> reported, remaining |-> rest, startPos |-> IndexOf(rest, "{")]

\* Nothing is removed when no object is found.
IterationWith_Stalls(remaining, obj) ==
    IF obj.found /\ Len(obj.text) > 0
    THEN IterationEnd(<<obj.text>>, SliceReported(remaining, obj.text))
    ELSE IterationEnd(<<>>, remaining)

\* stream-processing.ts:191-197, the branches on what extractValidJson returned.
IterationWith(remaining, obj) ==
    IF obj.found /\ Len(obj.text) > 0
    THEN IterationEnd(<<obj.text>>, SliceReported(remaining, obj.text))
    ELSE IterationEnd(<<>>, Slice(remaining, 1))

\* stream-processing.ts:190-206, one iteration of the loop of
\* tryFixAndParseMultipleJsons: what it reports (if anything) and what remains.
ScanIteration(remaining) == IterationWith(remaining, extractValidJson(remaining))

\* stream-processing.ts:189
ScanContinues(remaining, startPos) == startPos >= 0 /\ Len(remaining) > 0

\* stream-processing.ts:183-208, the texts handed to onJson, in order.
RECURSIVE ScanLoop(_, _)
LoopAfter(it) == it.reported \o ScanLoop(it.remaining, it.startPos)

ScanLoop(remaining, startPos) ==
    IF ScanContinues(remaining, startPos) THEN LoopAfter(ScanIteration(remaining)) ELSE <<>>

tryFixAndParseMultipleJsons(buffer) == ScanLoop(buffer, IndexOf(buffer, "{"))

----------------------------------------------------------------------------
(***************************************************************************)
(* useRepositoryFiles: the hook's state, the callbacks it hands to         *)
(* processJsonLine, and one run of fetchRepositoryFiles reading a response *)
(* whose bytes arrive in chunks.                                           *)
(***************************************************************************)
\* The bytes of the one two-byte character of the wire texts, the character
\* they decode to, and the replacement character.
LeadByte == "<C3>"
ContByte == "<A9>"
TwoByteChar == "<U+00E9>"
Replacement == "<U+FFFD>"

\* What the decoder makes of one byte; held tells whether a lead byte waits
\* for its continuation.
DecodeByte(held, byte) ==
    IF held
    THEN IF byte = ContByte THEN [text |-> <<TwoByteChar>>, held |-> FALSE]
         ELSE IF byte = LeadByte THEN [text |-> <<Replacement>>, held |-> TRUE]
         ELSE [text |-> <<Replacement, byte>>, held |-> FALSE]
    ELSE IF byte = LeadByte THEN [text |-> <<>>, held |-> TRUE]
    ELSE IF byte = ContByte THEN [text |-> <<Replacement>>, held |-> FALSE]
    ELSE [text |-> <<byte>>, held |-> FALSE]

\* The bytes bytes[lo..hi] decoded one after the other; the range is
\* evaluated by halves.
RECURSIVE DecodeRange(_, _, _, _)
DecodeJoin(left, right) == [text |-> left.text \o right.text, held |-> right.held]

DecodeAfter(bytes, lo, hi, left) == DecodeJoin(left, DecodeRange(bytes, lo, hi, left.held))

DecodeRange(bytes, lo, hi, held) ==
    IF lo > hi THEN [text |-> <<>>, held |-> held]
    ELSE IF lo = hi THEN DecodeByte(held, bytes[lo])
    ELSE DecodeAfter(bytes, (lo + hi) \div 2 + 1, hi,
                     DecodeRange(bytes, lo, (lo + hi) \div 2, held))

\* TextDecoder.decode(bytes, {stream: true}): a lead byte at the end of a
\* chunk is held back for the next call.
Decode(bytes, held) == DecodeRange(bytes, 1, Len(bytes), held)

\* stream-processing.ts:215-227, the state after the first render.
HookInit ==
    [phase |-> "mounted",
     files |-> <<>>,
     isLoading |-> TRUE,
     error |-> JsNull,
     totalFilesNum |-> JsNull,
     branchName |-> JsStr(<<>>),
     totalRepoSize |-> JsNum(0, 0),
     currentStatus |-> JsStr(<<"I", "n", "i", "t", "i", "a", "l", "i", "z", "i", "n", "g", ".", ".", ".">>),
     totalDirectories |-> 0,
     processedDirectories |-> 0,
     fileCountRef |-> JsNum(0, 0),
     closedTotalDirectories |-> 0,
     closedProcessedDirectories |-> 0,
     buffer |-> <<>>,
     held |-> FALSE,
     currentTotalSize |-> JsNum(0, 0),
     dispatched |-> <<>>,
     delivered |-> <<>>,
     cutInLine |-> FALSE]

\* stream-processing.ts:242-244
addFileToState(c, file) == [c EXCEPT !.files = Append(@, file)]

\* stream-processing.ts:246-249
handleApiError(c, message) ==
    [c EXCEPT !.error = JsStr(<<"A", "P", "I", " ", "E", "r", "r", "o", "r", ":", " ">> \o JsToString(message)), !.isLoading = FALSE]

handleTotalFiles_ClearsError(c, totalFiles) ==
    [c EXCEPT !.totalFilesNum = totalFiles, !.isLoading = FALSE, !.fileCountRef = totalFiles,
              !.error = JsNull]

\* stream-processing.ts:251-256
handleTotalFiles(c, totalFiles) ==
    [c EXCEPT !.totalFilesNum = totalFiles,
              !.currentStatus = JsStr(<<"C", "o", "m", "p", "l", "e", "t", "e", "!", " ", "P", "r", "o", "c", "e", "s", "s", "i", "n", "g", " ", "d", "a", "t", "a", ".", ".", ".">>),
              !.isLoading = FALSE,
              !.fileCountRef = totalFiles]

\* stream-processing.ts:258-260
handleBranchName(c, name) == [c EXCEPT !.branchName = name]

\* stream-processing.ts:262-268
handleStatusUpdate(c, message, count) ==
    LET c1 == [c EXCEPT !.currentStatus = message]
    IN IF Truthy(count) /\ IsNumber(count) /\ Gt(count, c.fileCountRef)
       THEN [c1 EXCEPT !.fileCountRef = count, !.totalFilesNum = count]
       ELSE c1

\* One callback invoked by processJsonLine: it is logged and it acts on the state.
Dispatch(c, call) ==
    LET c1 == [c EXCEPT !.dispatched = Append(@, call)]
    IN CASE call.cb = "onFile" -> addFileToState(c1, call.args[1])
         [] call.cb = "onError" -> handleApiError(c1, call.args[1])
         [] call.cb = "onComplete" -> handleTotalFiles(c1, call.args[1])
         [] call.cb = "onBranch" -> handleBranchName(c1, call.args[1])
         [] call.cb = "onStatus" -> handleStatusUpdate(c1, call.args[1], call.args[2])

RECURSIVE DispatchFrom(_, _, _)
DispatchFrom(c, cbs, i) ==
    IF i > Len(cbs) THEN c ELSE DispatchFrom(Dispatch(c, cbs[i]), cbs, i + 1)

\* processJsonLine(line, addFileToState, handleApiError, handleTotalFiles,
\* handleBranchName, handleStatusUpdate)
DispatchResult(c, r) == DispatchFrom(c, r.calls, 1)
DispatchLine(c, line) == DispatchResult(c, processJsonLine(line))

\* stream-processing.ts:280-284
CountFile(c, parsedFile) ==
    IF parsedFile.k = "obj" /\ Truthy(Get(parsedFile, K_size))
    THEN [c EXCEPT !.currentTotalSize = NumAdd(@, Get(parsedFile, K_size)),
                   !.fileCountRef = PlusOne(c.fileCountRef),
                   !.totalFilesNum = PlusOne(c.fileCountRef)]
    ELSE c

FileDataOf(c, r) == CountFile(DispatchResult(c, r), r.ret)

\* stream-processing.ts:270-293
processFileData(c, line) == FileDataOf(c, processJsonLine(line))

\* stream-processing.ts:445, /Found\s+(\d+)\s+directories/i
FoundDirsStarts(m) ==
    {i \in DOMAIN m :
        /\ LitAt(m, i, <<"f", "o", "u", "n", "d">>)
        /\ LET a == SkipReWs(m, i + 5)
               b == SkipDigits(m, a)
               c == SkipReWs(m, b)
           IN a > i + 5 /\ b > a /\ c > b /\ LitAt(m, c, <<"d", "i", "r", "e", "c", "t", "o", "r", "i", "e", "s">>)}

\* stream-processing.ts:446, /Found\s+(\d+)\s+more directories/i
MoreDirsStarts(m) ==
    {i \in DOMAIN m :
        /\ LitAt(m, i, <<"f", "o", "u", "n", "d">>)
        /\ LET a == SkipReWs(m, i + 5)
               b == SkipDigits(m, a)
               c == SkipReWs(m, b)
           IN a > i + 5 /\ b > a /\ c > b /\ LitAt(m, c, <<"m", "o", "r", "e", " ", "d", "i", "r", "e", "c", "t", "o", "r", "i", "e", "s">>)}

\* stream-processing.ts:447, /Processing directory\s+(\d+)\/(\d+)/i
ProcessingDirStarts(m) ==
    {i \in DOMAIN m :
        /\ LitAt(m, i, <<"p", "r", "o", "c", "e", "s", "s", "i", "n", "g", " ", "d", "i", "r", "e", "c", "t", "o", "r", "y">>)
        /\ LET a == SkipReWs(m, i + 20)
               b == SkipDigits(m, a)
           IN a > i + 20 /\ b > a /\ At(m, b) = "/" /\ At(m, b + 1) \in Digits}

\* stream-processing.ts:448, /processed\s+(\d+)\s+directories/i
CompletedBatchStarts(m) ==
    {i \in DOMAIN m :
        /\ LitAt(m, i, <<"p", "r", "o", "c", "e", "s", "s", "e", "d">>)
        /\ LET a == SkipReWs(m, i + 9)
               b == SkipDigits(m, a)
               c == SkipReWs(m, b)
           IN a > i + 9 /\ b > a /\ c > b /\ LitAt(m, c, <<"d", "i", "r", "e", "c", "t", "o", "r", "i", "e", "s">>)}

\* stream-processing.ts:437-465, the hook's handleStatusMessage on the text of
\* a string message.
handleStatusMessageDirs(m, currentTotalDirs, currentProcessedDirs) ==
    LET current == IntAt(m, SkipReWs(m, Leftmost(ProcessingDirStarts(m)) + 20))
    IN [newTotalDirs |->
            IF FoundDirsStarts(m) # {}
            THEN currentTotalDirs + IntAt(m, SkipReWs(m, Leftmost(FoundDirsStarts(m)) + 5))
            ELSE IF MoreDirsStarts(m) # {}
                 THEN currentTotalDirs + IntAt(m, SkipReWs(m, Leftmost(MoreDirsStarts(m)) + 5))
            ELSE currentTotalDirs,
        newProcessedDirs |->
            IF ProcessingDirStarts(m) # {}
            THEN IF current > currentProcessedDirs THEN current ELSE currentProcessedDirs
            ELSE IF CompletedBatchStarts(m) # {}
                 THEN currentProcessedDirs
                        + IntAt(m, SkipReWs(m, Leftmost(CompletedBatchStarts(m)) + 9))
            ELSE IF \E i \in DOMAIN m : TextAt(m, i, <<"C", "o", "m", "p", "l", "e", "t", "e", "d", " ", "d", "i", "r", "e", "c", "t", "o", "r", "y">>)
                 THEN currentProcessedDirs + 1
            ELSE currentProcessedDirs]

\* stream-processing.ts:305-306
SetDirectories(c, dirs) ==
    [c EXCEPT !.totalDirectories = dirs.newTotalDirs,
              !.processedDirectories = dirs.newProcessedDirs]

\* stream-processing.ts:297-310; processLine works on the directory counters
\* of the render that created it.  A message that is neither a string nor
\* null/undefined makes message.includes throw, which the catch swallows.
CountDirectories(c, parsed, message) ==
    IF /\ parsed.ok
       /\ parsed.v.k # "null"
       /\ Get(parsed.v, K_type) = JsStr(<<"s", "t", "a", "t", "u", "s">>)
       /\ message.k \in {"str", "null", "undefined"}
    THEN SetDirectories(c, handleStatusMessageDirs(IF IsString(message) THEN message.s ELSE <<>>,
                                                   c.closedTotalDirectories,
                                                   c.closedProcessedDirectories))
    ELSE c

LineParsed(c, parsed) == CountDirectories(c, parsed, Get(parsed.v, K_message))

\* stream-processing.ts:295-313; the line processLine is called with is logged.
processLine(c, line) ==
    processFileData(LineParsed([c EXCEPT !.delivered = Append(@, line)], JsonParse(line)), line)

\* String.prototype.split("\n")
RECURSIVE Split(_)
Split(s) ==
    IF IndexOf(s, "\n") = -1 THEN <<s>>
    ELSE <<Prefix(s, IndexOf(s, "\n"))>> \o Split(Slice(s, IndexOf(s, "\n") + 1))

\* stream-processing.ts:321-326
RECURSIVE ProcessLines(_, _, _)
ProcessLines(c, lines, i) ==
    IF i > Len(lines) - 1 THEN c
    ELSE ProcessLines(IF TrimNonEmpty(lines[i]) THEN processLine(c, lines[i]) ELSE c,
                      lines, i + 1)

LastLine_Dropped(lines) == <<>>

\* stream-processing.ts:327
LastLine(lines) == lines[Len(lines)]

\* stream-processing.ts:321-327
BufferLines(c, lines) == [ProcessLines(c, lines, 1) EXCEPT !.buffer = LastLine(lines)]

\* stream-processing.ts:315-328, the caller's buffer being c.buffer.
processBuffer(c) == BufferLines(c, Split(c.buffer))

RECURSIVE DispatchScanned(_, _, _)
DispatchScanned(c, jsons, i) ==
    IF i > Len(jsons) THEN c ELSE DispatchScanned(DispatchLine(c, jsons[i]), jsons, i + 1)

\* stream-processing.ts:332-361
RemainingWith(c, buffer, r) ==
    IF r.threw THEN DispatchScanned(c, tryFixAndParseMultipleJsons(buffer), 1)
    ELSE DispatchResult(c, r)

\* stream-processing.ts:330-362
processRemainingBuffer(c, buffer) ==
    IF ~TrimNonEmpty(buffer) THEN c ELSE RemainingWith(c, buffer, processJsonLine(buffer))

\* stream-processing.ts:428-431, the catch of fetchRepositoryFiles.
FetchFailed(c, message) ==
    [c EXCEPT !.error = JsStr(message), !.isLoading = FALSE, !.phase = "failed"]

\* The responses that make fetchRepositoryFiles throw before reading.
BadResponses ==
    {[ok |-> FALSE, status |-> 400,
      error |-> JsStr(<<"I", "n", "v", "a", "l", "i", "d", " ", "G", "i", "t", "H", "u", "b", " ", "U", "R", "L", ":", " ", "M", "i", "s", "s", "i", "n", "g", " ", "o", "w", "n", "e", "r", " ", "o", "r", " ", "r", "e", "p", "o", "s", "i", "t", "o", "r", "y", ".">>), body |-> TRUE],
     [ok |-> FALSE, status |-> 500, error |-> Undefined, body |-> TRUE],
     [ok |-> TRUE, status |-> 200, error |-> Undefined, body |-> FALSE]}

\* stream-processing.ts:392-403
ResponseError(r) ==
    IF ~r.ok
    THEN <<"A", "P", "I", " ", "r", "e", "q", "u", "e", "s", "t", " ", "f", "a", "i", "l", "e", "d", " ", "w", "i", "t", "h", " ", "s", "t", "a", "t", "u", "s", " ">> \o NatText(r.status)
           \o (IF Truthy(r.error) THEN <<":", " ">> \o JsToString(r.error) ELSE <<>>)
    ELSE <<"R", "e", "s", "p", "o", "n", "s", "e", " ", "b", "o", "d", "y", " ", "i", "s", " ", "n", "u", "l", "l", ".">>

\* The message of the error a failing reader.read() rejects with.
ReadErrorMessage == <<"n", "e", "t", "w", "o", "r", "k", " ", "e", "r", "r", "o", "r">>

\* The scanner before it is called.
ScanIdle ==
    [pc |-> "idle", parts |-> <<>>, buffer |-> <<>>, remaining |-> <<>>, startPos |-> -1,
     reported |-> <<>>]

\* stream-processing.ts:371-390: fetchRepositoryFiles resets the state and
\* issues the request; the callbacks it uses are those of the render it runs
\* after.
StartFetch(c) ==
    [c EXCEPT !.phase = "fetching",
              !.isLoading = TRUE,
              !.files = <<>>,
              !.error = JsNull,
              !.totalFilesNum = JsNull,
              !.branchName = JsStr(<<>>),
              !.totalRepoSize = JsNum(0, 0),
              !.totalDirectories = 0,
              !.processedDirectories = 0,
              !.closedTotalDirectories = c.totalDirectories,
              !.closedProcessedDirectories = c.processedDirectories,
              !.currentTotalSize = JsNum(0, 0)]

\* stream-processing.ts:364-369 and 371-390: the effect runs; without owner or
\* repo it reports the error, otherwise fetchRepositoryFiles resets the state
\* and issues the request.
RunEffect ==
    /\ cl.phase = "mounted"
    /\ \E named \in BOOLEAN :
          cl' = IF named
                THEN StartFetch(cl)
                ELSE [cl EXCEPT !.phase = "unnamed",
                                !.error = JsStr(<<"O", "w", "n", "e", "r", " ", "a", "n", "d", " ", "r", "e", "p", "o", "s", "i", "t", "o", "r", "y", " ", "n", "o", "t", " ", "s", "p", "e", "c", "i", "f", "i", "e", "d", " ", "i", "n", " ", "U", "R", "L", ".">>),
                                !.isLoading = FALSE]
    /\ UNCHANGED <<wire, input, scan, serverSide, lib>>

\* stream-processing.ts:405-407, the response is ok and has a body.
ResponseOk ==
    /\ cl.phase = "fetching"
    /\ cl' = [cl EXCEPT !.phase = "reading", !.buffer = <<>>, !.held = FALSE]
    /\ UNCHANGED <<wire, input, scan, serverSide, lib>>

\* stream-processing.ts:392-403 and 427-431
ResponseBad ==
    /\ cl.phase = "fetching"
    /\ \E r \in BadResponses : cl' = FetchFailed(cl, ResponseError(r))
    /\ UNCHANGED <<wire, input, scan, serverSide, lib>>

\* The decoded text replaces the buffer.
Received_Replaces(c, decoded, cut) ==
    processBuffer([c EXCEPT !.buffer = decoded.text,
                            !.held = decoded.held,
                            !.cutInLine = @ \/ cut])

\* stream-processing.ts:420-425
Received(c, decoded, cut) ==
    processBuffer([c EXCEPT !.buffer = @ \o decoded.text,
                            !.held = decoded.held,
                            !.cutInLine = @ \/ cut])

\* stream-processing.ts:410-425, reader.read() resolves with the next n bytes.
ReadChunk ==
    /\ cl.phase = "reading"
    /\ wire # <<>>
    /\ \E n \in (1..MaxChunk) \cup {Len(wire)} :
          /\ n <= Len(wire)
          /\ cl' = Received(cl, Decode(Prefix(wire, n), cl.held),
                            n < Len(wire) /\ wire[n] # "\n" /\ wire[n + 1] # "\n")
          /\ wire' = Slice(wire, n)
    /\ UNCHANGED <<input, scan, serverSide, lib>>

\* stream-processing.ts:411-417, reader.read() resolves with done.
ReadDone ==
    /\ cl.phase = "reading"
    /\ wire = <<>>
    /\ cl' = [processRemainingBuffer([cl EXCEPT !.isLoading = FALSE], cl.buffer)
                EXCEPT !.totalRepoSize = cl.currentTotalSize, !.phase = "closed"]
    /\ UNCHANGED <<wire, input, scan, serverSide, lib>>

\* stream-processing.ts:411 and 427-431, reader.read() rejects.
ReadFailed ==
    /\ cl.phase = "reading"
    /\ cl' = FetchFailed(cl, ReadErrorMessage)
    /\ UNCHANGED <<wire, input, scan, serverSide, lib>>

\* The lines a response is made of in the decoder's runs, as bytes.
WirePieces ==
    {<<"{", "\"", "t", "y", "p", "e", "\"", ":", "\"", "b", "r", "a", "n", "c", "h", "\"", ",", "\"", "n", "a", "m", "e", "\"", ":", "\"">> \o <<LeadByte, ContByte>> \o <<"\"", "}">>,
     <<"{", "\"", "t", "y", "p", "e", "\"", ":", "\"", "s", "t", "a", "t", "u", "s", "\"", ",", "\"", "m", "e", "s", "s", "a", "g", "e", "\"", ":", "\"", "t", "o", "t", "a", "l", ":", " ", "7", "\"", "}">>,
     <<"{", "\"", "p", "a", "t", "h", "\"", ":", "\"", "a", "\"", ",", "\"", "s", "i", "z", "e", "\"", ":", "1", "}">>,
     <<"{", "\"", "t", "y", "p", "e", "\"", ":", "\"", "c", "o", "m", "p", "l", "e", "t", "e", "\"", ",", "\"", "t", "o", "t", "a", "l", "_", "f", "i", "l", "e", "s", "\"", ":", "2", "}">>,
     <<"{", "b", "a", "d", "}">>,
     <<" ">>}

\* A piece with or without its newline.
WireSegments == WirePieces \cup {Append(p, "\n") : p \in WirePieces}

RECURSIVE Concat(_)
Concat(ss) == IF ss = <<>> THEN <<>> ELSE Head(ss) \o Concat(Tail(ss))

WireTexts == {Concat(ss) : ss \in SeqsUpTo(WireSegments, MaxLines)}

InitDecoder ==
    /\ gen = GenInit
    /\ calls = <<>>
    /\ budget = MaxItems
    /\ wideLeft = TRUE
    /\ lib = NoCall
    /\ cl = HookInit
    /\ input \in WireTexts
    /\ wire = input
    /\ scan = ScanIdle

NextDecoder ==
    \/ RunEffect
    \/ ResponseOk
    \/ ResponseBad
    \/ ReadChunk
    \/ ReadDone
    \/ ReadFailed

SpecDecoder == InitDecoder /\ [][NextDecoder]_vars

----------------------------------------------------------------------------
(***************************************************************************)
(* tryFixAndParseMultipleJsons, one loop iteration per step, on buffers    *)
(* made of valid objects and at most one invalid span.                     *)
(***************************************************************************)
ScanObjects ==
    {<<"{", "}">>,
     <<"{", "\"", "}", "\"", ":", "\"", "{", "\"", "}">>,
     <<"{", "\"", "q", "\"", ":", "\"", "\\", "\"", "\"", "}">>,
     <<"{", "\"", "s", "\"", ":", "\"", "\\", "\\", "\"", "}">>,
     <<"{", "\"", "n", "\"", ":", "{", "\"", "b", "\"", ":", "[", "2", "]", "}", "}">>}

ScanSpans ==
    {<<"{", "i", "n", "v", "a", "l", "i", "d", "}">>,
     <<"{", "\"", "x", "\"", ":", "\"">>,
     <<"{", "b", "a", "d", "{", "\"", "c", "\"", ":", "1", "}">>,
     <<" ">>}

Part(text, valid) == [text |-> text, valid |-> valid]

InsertAt(s, k, x) == SubSeq(s, 1, k) \o <<x>> \o SubSeq(s, k + 1, Len(s))

\* The objects of a buffer, and the same with one span put in somewhere.
ObjectRuns == {[i \in DOMAIN os |-> Part(os[i], TRUE)] : os \in SeqsUpTo(ScanObjects, MaxObjects)}
ScanInputs ==
    ObjectRuns \cup
    UNION {{InsertAt(run, k, Part(span, FALSE)) : k \in 0..Len(run), span \in ScanSpans} :
              run \in ObjectRuns}

RECURSIVE TextOf(_)
TextOf(parts) == IF parts = <<>> THEN <<>> ELSE Head(parts).text \o TextOf(Tail(parts))

\* stream-processing.ts:187-188
ScanStart ==
    /\ scan.pc = "called"
    /\ scan' = [scan EXCEPT !.pc = "loop",
                            !.remaining = scan.buffer,
                            !.startPos = IndexOf(scan.buffer, "{")]
    /\ UNCHANGED <<cl, wire, input, serverSide, lib>>

\* stream-processing.ts:192-205
ScanAfter(s, it) ==
    [s EXCEPT !.reported = @ \o it.reported,
              !.remaining = it.remaining,
              !.startPos = it.startPos]

\* stream-processing.ts:189-206, one iteration.
ScanStep ==
    /\ scan.pc = "loop"
    /\ ScanContinues(scan.remaining, scan.startPos)
    /\ scan' = ScanAfter(scan, ScanIteration(scan.remaining))
    /\ UNCHANGED <<cl, wire, input, serverSide, lib>>

\* stream-processing.ts:189 and 207, the loop ends.
ScanReturn ==
    /\ scan.pc = "loop"
    /\ ~ScanContinues(scan.remaining, scan.startPos)
    /\ scan' = [scan EXCEPT !.pc = "done"]
    /\ UNCHANGED <<cl, wire, input, serverSide, lib>>

InitScanner ==
    /\ gen = GenInit
    /\ calls = <<>>
    /\ budget = MaxItems
    /\ wideLeft = TRUE
    /\ lib = NoCall
    /\ cl = HookInit
    /\ input = <<>>
    /\ wire = <<>>
    /\ \E parts \in ScanInputs :
          scan = [ScanIdle EXCEPT !.pc = "called", !.parts = parts, !.buffer = TextOf(parts)]

NextScanner == ScanStart \/ ScanStep \/ ScanReturn

SpecScanner == InitScanner /\ [][NextScanner]_vars

----------------------------------------------------------------------------
(***************************************************************************)
(* One traversal of the materializer against a remote that answers as it   *)
(* likes; the client and the scanner stay as they start.                   *)
(***************************************************************************)
Init ==
    /\ gen = GenInit
    /\ calls = <<>>
    /\ budget = MaxItems
    /\ wideLeft = TRUE
    /\ lib = NoCall
    /\ cl = HookInit
    /\ wire = <<>>
    /\ input = <<>>
    /\ scan = ScanIdle

Next ==
    \/ Start
    \/ GetBranchOk
    \/ GetBranchFail
    \/ ResumeBranchError
    \/ ResumeBranch
    \/ ResumeStarting
    \/ GetRootTreeOk
    \/ GetRootTreeFail
    \/ ResumeRootFound
    \/ ResumeRootFile
    \/ ResumeRootProcessed
    \/ ResumeDirsFound
    \/ ResumeBatch
    \/ ResumeDir
    \/ GetSubTreeOk
    \/ GetSubTreeWide
    \/ GetSubTreeFail
    \/ ResumeSubFile
    \/ ResumeFive
    \/ ResumeDirDone
    \/ ResumeWarning
    \/ ResumeBatchDone
    \/ ResumeMoreDirs
    \/ ResumeFetchError
    \/ ResumeComplete

Spec == Init /\ [][Next]_vars

----------------------------------------------------------------------------
(***************************************************************************)
(* The events as bytes: the messages of route.ts and streamResponse, which *)
(* is JSON.stringify(data) + "\n" encoded as UTF-8 (the texts here are     *)
(* ASCII, one byte per character).                                         *)
(***************************************************************************)
Owner == <<"o">>
Repo == <<"r">>
BranchText == <<"m", "a", "i", "n">>

\* String.prototype.includes
Includes(s, lit) == \E i \in DOMAIN s : TextAt(s, i, lit)

\* String.prototype.endsWith and startsWith
IsSuffix(s, t) == Len(s) <= Len(t) /\ SubSeq(t, Len(t) - Len(s) + 1, Len(t)) = s
IsPrefix(s, t) == Len(s) <= Len(t) /\ SubSeq(t, 1, Len(s)) = s

\* The statusText and the status of the response a failed getBranch got.
StatusTextOf(failure) ==
    CASE failure = "Not Found" -> <<"N", "o", "t", " ", "F", "o", "u", "n", "d">>
      [] failure = "Internal Server Error" -> <<"I", "n", "t", "e", "r", "n", "a", "l", " ", "S", "e", "r", "v", "e", "r", " ", "E", "r", "r", "o", "r">>
StatusCodeOf(failure) ==
    CASE failure = "Not Found" -> 404
      [] failure = "Internal Server Error" -> 500

\* github.ts:107, the message of the error getBranch throws.
GetBranchError(failure) == <<"F", "a", "i", "l", "e", "d", " ", "t", "o", " ", "f", "e", "t", "c", "h", " ", "b", "r", "a", "n", "c", "h", ":", " ">> \o StatusTextOf(failure)

\* github.ts:131, the message of the error a failed getTreeFiles throws.
GetTreeFilesError == <<"F", "a", "i", "l", "e", "d", " ", "t", "o", " ", "f", "e", "t", "c", "h", " ", "t", "r", "e", "e", " ", "f", "i", "l", "e", "s", ":", " ", "I", "n", "t", "e", "r", "n", "a", "l", " ", "S", "e", "r", "v", "e", "r", " ", "E", "r", "r", "o", "r">>

NotFoundMessage ==
    <<"B", "r", "a", "n", "c", "h", " ", "'">> \o BranchText \o <<"'", " ", "n", "o", "t", " ", "f", "o", "u", "n", "d", " ", "i", "n", " ", "r", "e", "p", "o", "s", "i", "t", "o", "r", "y", " ">> \o Owner \o <<"/">> \o Repo \o <<".">>

\* route.ts:65-68
BranchErrorMessage(baseErrorMessage) ==
    IF Includes(baseErrorMessage, <<"4", "0", "4">>)
    THEN NotFoundMessage
    ELSE <<"F", "a", "i", "l", "e", "d", " ", "t", "o", " ", "f", "e", "t", "c", "h", " ", "b", "r", "a", "n", "c", "h", " ", "'">> \o BranchText \o <<"'", ":", " ">> \o baseErrorMessage

\* The message of a status event, by the yield statement it comes from.
StatusMessage(site, args) ==
    CASE site = "starting" -> <<"S", "t", "a", "r", "t", "i", "n", "g", " ", "t", "o", " ", "p", "r", "o", "c", "e", "s", "s", " ", "r", "e", "p", "o", "s", "i", "t", "o", "r", "y", " ", "f", "i", "l", "e", "s", ".", ".", ".">>
      [] site = "root_found" -> <<"F", "o", "u", "n", "d", " ", "r", "o", "o", "t", " ", "d", "i", "r", "e", "c", "t", "o", "r", "y", " ", "w", "i", "t", "h", " ">> \o NatText(args[1]) \o <<" ", "i", "t", "e", "m", "s">>
      [] site = "root_processed" ->
            <<"P", "r", "o", "c", "e", "s", "s", "e", "d", " ">> \o NatText(args[1]) \o <<" ", "f", "i", "l", "e", "s", " ", "i", "n", " ", "r", "o", "o", "t", " ", "d", "i", "r", "e", "c", "t", "o", "r", "y">>
      [] site = "dirs_found" -> <<"F", "o", "u", "n", "d", " ">> \o NatText(args[1]) \o <<" ", "d", "i", "r", "e", "c", "t", "o", "r", "i", "e", "s", " ", "t", "o", " ", "p", "r", "o", "c", "e", "s", "s">>
      [] site = "batch" ->
            <<"P", "r", "o", "c", "e", "s", "s", "i", "n", "g", " ", "b", "a", "t", "c", "h", " ">> \o NatText(args[1]) \o <<" ", "w", "i", "t", "h", " ">> \o NatText(args[2])
              \o <<" ", "d", "i", "r", "e", "c", "t", "o", "r", "i", "e", "s">>
      [] site = "dir" -> <<"P", "r", "o", "c", "e", "s", "s", "i", "n", "g", " ", "d", "i", "r", "e", "c", "t", "o", "r", "y", ":", " ">> \o args[1]
      [] site = "five" ->
            <<"F", "o", "u", "n", "d", " ">> \o NatText(args[1]) \o <<" ", "m", "o", "r", "e", " ", "f", "i", "l", "e", "s", " ", "(", "t", "o", "t", "a", "l", ":", " ">> \o NatText(args[2]) \o <<")">>
      [] site = "dir_done" ->
            <<"C", "o", "m", "p", "l", "e", "t", "e", "d", " ", "d", "i", "r", "e", "c", "t", "o", "r", "y", " ">> \o args[1] \o <<":", " ", "F", "o", "u", "n", "d", " ">> \o NatText(args[2])
              \o <<" ", "f", "i", "l", "e", "s", " ", "(", "t", "o", "t", "a", "l", ":", " ">> \o NatText(args[3]) \o <<")">>
      [] site = "batch_done" ->
            <<"C", "o", "m", "p", "l", "e", "t", "e", "d", " ", "b", "a", "t", "c", "h", " ">> \o NatText(args[1]) \o <<":", " ", "p", "r", "o", "c", "e", "s", "s", "e", "d", " ">> \o NatText(args[2])
              \o <<" ", "d", "i", "r", "e", "c", "t", "o", "r", "i", "e", "s", ",", " ", "f", "o", "u", "n", "d", " ">> \o NatText(args[3]) \o <<" ", "f", "i", "l", "e", "s", " ", "t", "o", "t", "a", "l">>
      [] site = "more_dirs" ->
            <<"F", "o", "u", "n", "d", " ">> \o NatText(args[1]) \o <<" ", "m", "o", "r", "e", " ", "d", "i", "r", "e", "c", "t", "o", "r", "i", "e", "s", " ", "t", "o", " ", "p", "r", "o", "c", "e", "s", "s", " ", "i", "n", " ", "t", "h", "e", " ", "n", "e", "x", "t", " ", "b", "a", "t", "c", "h">>

\* The message of an event that has one.
MessageOf(ev) ==
    CASE ev.type = "status" -> StatusMessage(ev.site, ev.args)
      [] ev.type = "warning" ->
            <<"S", "k", "i", "p", "p", "e", "d", " ", "d", "i", "r", "e", "c", "t", "o", "r", "y", " ">> \o ev.dir \o <<" ", "d", "u", "e", " ", "t", "o", " ", "e", "r", "r", "o", "r", ":", " ">> \o GetTreeFilesError
      [] ev.type = "error" /\ ev.site = "branch" ->
            BranchErrorMessage(GetBranchError(ev.cause))
      [] ev.type = "error" /\ ev.site = "structure" ->
            <<"E", "r", "r", "o", "r", " ", "f", "e", "t", "c", "h", "i", "n", "g", " ", "r", "e", "p", "o", "s", "i", "t", "o", "r", "y", " ", "s", "t", "r", "u", "c", "t", "u", "r", "e", ":", " ">> \o GetTreeFilesError

\* JSON.stringify of the characters of a string.
EscapeChar(c) ==
    IF c = "\"" THEN <<"\\", "\"">>
    ELSE IF c = "\\" THEN <<"\\", "\\">>
    ELSE IF c = "\n" THEN <<"\\", "n">>
    ELSE <<c>>

RECURSIVE EscapeRange(_, _, _)
EscapeRange(s, lo, hi) ==
    IF lo > hi THEN <<>>
    ELSE IF lo = hi THEN EscapeChar(s[lo])
    ELSE EscapeRange(s, lo, (lo + hi) \div 2) \o EscapeRange(s, (lo + hi) \div 2 + 1, hi)

\* JSON.stringify of a string.
JsonString(s) == <<"\"">> \o EscapeRange(s, 1, Len(s)) \o <<"\"">>

\* JSON.stringify(data) for the objects the generator yields; a tree entry is
\* written with the fields the client reads.
JsonStringify(ev) ==
    CASE ev.type = "branch" ->
            <<"{", "\"", "t", "y", "p", "e", "\"", ":", "\"", "b", "r", "a", "n", "c", "h", "\"", ",", "\"", "n", "a", "m", "e", "\"", ":">> \o JsonString(BranchText) \o <<"}">>
      [] ev.type = "status" ->
            <<"{", "\"", "t", "y", "p", "e", "\"", ":", "\"", "s", "t", "a", "t", "u", "s", "\"", ",", "\"", "m", "e", "s", "s", "a", "g", "e", "\"", ":">> \o JsonString(MessageOf(ev))
              \o <<",", "\"", "f", "i", "l", "e", "s", "_", "p", "r", "o", "c", "e", "s", "s", "e", "d", "\"", ":">> \o NatText(ev.files_processed) \o <<"}">>
      [] ev.type = "warning" ->
            <<"{", "\"", "t", "y", "p", "e", "\"", ":", "\"", "w", "a", "r", "n", "i", "n", "g", "\"", ",", "\"", "m", "e", "s", "s", "a", "g", "e", "\"", ":">> \o JsonString(MessageOf(ev))
              \o <<",", "\"", "f", "i", "l", "e", "s", "_", "p", "r", "o", "c", "e", "s", "s", "e", "d", "\"", ":">> \o NatText(ev.files_processed) \o <<"}">>
      [] ev.type = "error" ->
            <<"{", "\"", "t", "y", "p", "e", "\"", ":", "\"", "e", "r", "r", "o", "r", "\"", ",", "\"", "m", "e", "s", "s", "a", "g", "e", "\"", ":">> \o JsonString(MessageOf(ev)) \o <<"}">>
      [] ev.type = "complete" ->
            <<"{", "\"", "t", "y", "p", "e", "\"", ":", "\"", "c", "o", "m", "p", "l", "e", "t", "e", "\"", ",", "\"", "t", "o", "t", "a", "l", "_", "f", "i", "l", "e", "s", "\"", ":">> \o NatText(ev.total_files)
              \o <<",", "\"", "t", "o", "t", "a", "l", "_", "d", "i", "r", "e", "c", "t", "o", "r", "i", "e", "s", "\"", ":">> \o NatText(ev.total_directories) \o <<"}">>
      [] ev.type = "blob" ->
            <<"{", "\"", "p", "a", "t", "h", "\"", ":">> \o JsonString(ev.path) \o <<",", "\"", "t", "y", "p", "e", "\"", ":", "\"", "b", "l", "o", "b", "\"", ",", "\"", "s", "h", "a", "\"", ":">>
              \o JsonString(ShaText(ev.sha)) \o <<",", "\"", "s", "i", "z", "e", "\"", ":">> \o NatText(ev.size) \o <<"}">>

\* route.ts:51-53
streamResponse(data) == Append(JsonStringify(data), "\n")

----------------------------------------------------------------------------
(***************************************************************************)
(* The traversal behind iteratorToStream, read by the client: the stream   *)
(* pulls the generator when its queue is empty, enqueues each yielded      *)
(* chunk, and the client's reader takes the chunks as they were enqueued.  *)
(***************************************************************************)
\* Tree entries of the repository in these runs.
PipeItems == 2

\* route.ts:23-34, the stream before its first pull.
StreamInit ==
    [op |-> "iteratorToStream", pc |-> "idle", pulls |-> 0, enqueued |-> 0, closed |-> FALSE,
     sent |-> <<>>]

\* route.ts:25-26, pull(controller) is called while the queue is empty; the
\* response is being read by then.
Pull ==
    /\ lib.op = "iteratorToStream"
    /\ lib.pc = "idle"
    /\ ~lib.closed
    /\ wire = <<>>
    /\ cl.phase = "reading"
    /\ lib' = [lib EXCEPT !.pc = "next", !.pulls = @ + 1]
    /\ UNCHANGED <<cl, wire, input, scan, serverSide>>

\* The generator runs on whether or not it has yielded.
Advancing_Eager ==
    /\ lib.op = "iteratorToStream"
    /\ lib.pc = "next"
    /\ gen.pc # "done"

\* route.ts:26, iterator.next() has not settled: the generator runs on.
Advancing ==
    /\ lib.op = "iteratorToStream"
    /\ lib.pc = "next"
    /\ Len(gen.events) = lib.enqueued
    /\ gen.pc # "done"

\* route.ts:29-30, next() settled with a value.
Enqueue ==
    /\ lib.op = "iteratorToStream"
    /\ lib.pc = "next"
    /\ Len(gen.events) > lib.enqueued
    /\ wire' = wire \o streamResponse(gen.events[Len(gen.events)])
    /\ lib' = [lib EXCEPT !.pc = "idle", !.enqueued = @ + 1,
                          !.sent = Append(@, gen.events[Len(gen.events)])]
    /\ UNCHANGED <<cl, input, scan, serverSide>>

\* route.ts:27-28, next() settled with done.
Close ==
    /\ lib.op = "iteratorToStream"
    /\ lib.pc = "next"
    /\ Len(gen.events) = lib.enqueued
    /\ gen.pc = "done"
    /\ lib' = [lib EXCEPT !.pc = "idle", !.closed = TRUE]
    /\ UNCHANGED <<cl, wire, input, scan, serverSide>>

\* stream-processing.ts:412-425, reader.read() resolves with the enqueued chunk.
ReadEvent ==
    /\ lib.op = "iteratorToStream"
    /\ cl.phase = "reading"
    /\ wire # <<>>
    /\ cl' = Received(cl, Decode(wire, cl.held), FALSE)
    /\ wire' = <<>>
    /\ UNCHANGED <<input, scan, serverSide, lib>>

InitPipeline ==
    /\ gen = GenInit
    /\ calls = <<>>
    /\ budget = PipeItems
    /\ wideLeft = TRUE
    /\ cl = HookInit
    /\ wire = <<>>
    /\ input = <<>>
    /\ scan = ScanIdle
    /\ lib = StreamInit

NextPipeline ==
    \/ RunEffect
    \/ ResponseOk
    \/ Pull
    \/ Advancing /\ Next
    \/ Enqueue
    \/ Close
    \/ ReadEvent
    \/ lib.closed /\ ReadDone

SpecPipeline == InitPipeline /\ [][NextPipeline]_vars

\* The client's file count and, once set, the displayed one are no smaller
\* after the step than before it.
CountKept ==
    /\ ~NumGt(cl.fileCountRef, cl'.fileCountRef)
    /\ (cl.totalFilesNum.k = "num" /\ cl'.totalFilesNum.k = "num")
          => ~NumGt(cl.totalFilesNum, cl'.totalFilesNum)

\* C11: along the events of one traversal, no step of the client replaces its
\* file count, or the displayed file count once it is set, by a smaller one.
C11_CountNeverDecreases == [][CountKept]_vars

----------------------------------------------------------------------------
(***************************************************************************)
(* Properties of the traversal.                                            *)
(***************************************************************************)
Done == gen.pc = "done"

EventIdx(P(_)) == {i \in DOMAIN gen.events : P(gen.events[i])}

IsTerminal(e) == e.type \in {"complete", "error"}
IsFile(e) == e.type = "blob"
IsWarning(e) == e.type = "warning"
IsError(e) == e.type = "error"
IsComplete(e) == e.type = "complete"

IsSubCall(c) == c.op = "getTreeFiles" /\ c.sha # CommitSha
SubCalls == {i \in DOMAIN calls : IsSubCall(calls[i])}
FailedSubCalls == {i \in SubCalls : calls[i].status = "fail"}
OkSubCalls == {i \in SubCalls : calls[i].status = "ok"}
OkTreeCalls == {i \in DOMAIN calls : calls[i].op = "getTreeFiles" /\ calls[i].status = "ok"}
BranchFailed == Len(calls) >= 1 /\ calls[1].status \in BranchFailures
RootFailed == Len(calls) >= 2 /\ calls[2].status = "fail"

\* How many entries of listing tree are directories with this sha.
RefsIn(tree, sha) ==
    Cardinality({k \in DOMAIN tree : tree[k].type = "tree" /\ tree[k].sha = sha})

\* C1: a finished traversal has emitted exactly one terminal event (complete or
\* error, never both), and it is the last event.
C1_ExactlyOneTerminal ==
    Done => /\ Cardinality(EventIdx(IsTerminal)) = 1
            /\ IsTerminal(gen.events[Len(gen.events)])

\* C2: over the whole traversal, no blob SHA is emitted as a file event twice.
C2_EachBlobOnce ==
    \A i, j \in EventIdx(IsFile) : gen.events[i].sha = gen.events[j].sha => i = j

\* C3: no subdirectory tree SHA is passed to getTreeFiles more than once,
\* whether it was enqueued several times, is reachable through several parents,
\* or its fetch failed.
C3_TreeExpandedOnce ==
    \A i, j \in SubCalls : calls[i].sha = calls[j].sha => i = j

\* A finished traversal in which a directory listed twice by the root and once
\* more by another directory was fetched, and that one fetch failed.
C3_Witness ==
    /\ Done
    /\ \E i \in FailedSubCalls :
          /\ RefsIn(calls[2].tree, calls[i].sha) >= 2
          /\ \E j \in OkSubCalls : RefsIn(calls[j].tree, calls[i].sha) >= 1

\* C4: when subdirectory fetches fail, each failed directory gets exactly one
\* warning, no error is emitted, every directory that was discovered is still
\* expanded, and the traversal ends with complete.
C4_FailureIsolated ==
    (Done /\ FailedSubCalls # {}) =>
        /\ \A i \in FailedSubCalls :
              Cardinality({k \in EventIdx(IsWarning) : gen.events[k].dir = calls[i].path}) = 1
        /\ Cardinality(EventIdx(IsWarning)) = Cardinality(FailedSubCalls)
        /\ EventIdx(IsError) = {}
        /\ IsComplete(gen.events[Len(gen.events)])
        /\ gen.treeFiles = <<>>
        /\ \A i \in OkTreeCalls : \A k \in DOMAIN calls[i].tree :
              calls[i].tree[k].type = "tree" =>
                  \E j \in SubCalls : calls[j].sha = calls[i].tree[k].sha

\* A finished traversal where a fetch of the first batch failed, a later
\* directory of that batch was fetched, and so was one of the next generation.
C4_Witness ==
    /\ Done
    /\ \E i \in FailedSubCalls : \E j, k \in OkSubCalls :
          /\ i < j /\ j < k
          /\ calls[i].batch = calls[j].batch
          /\ calls[k].batch > calls[j].batch

\* C5: the totals of complete reflect only successfully fetched subtrees:
\* total_files is the number of file events, total_directories the number of
\* distinct directories whose fetch succeeded.
C5_TotalsOnlySuccessful ==
    \A k \in EventIdx(IsComplete) :
        /\ gen.events[k].total_files = Cardinality(EventIdx(IsFile))
        /\ gen.events[k].total_directories = Cardinality({calls[i].sha : i \in OkSubCalls})

\* C6: when getBranch fails, the only event ever emitted is one error, and no
\* tree fetch is issued.
C6_BranchFailureOnlyError ==
    BranchFailed =>
        /\ Len(gen.events) = 1
        /\ IsError(gen.events[1])
        /\ Len(calls) = 1

\* The traversal has finished after a failed branch lookup.
C6_Witness == Done /\ BranchFailed

\* What an event shows: its type and its text (the message, the path, the
\* branch name, or the totals).
Shown(type, text) == [type |-> type, text |-> text]
ShownOf(ev) ==
    CASE ev.type \in {"status", "warning", "error"} -> Shown(ev.type, MessageOf(ev))
      [] ev.type = "blob" -> Shown("file", ev.path)
      [] ev.type = "branch" -> Shown("branch", BranchText)
      [] ev.type = "complete" ->
            Shown("complete", NatText(ev.total_files) \o <<",">> \o NatText(ev.total_directories))
ShownEvents == [i \in DOMAIN gen.events |-> ShownOf(gen.events[i])]

\* The scenario: the root lists file1.txt and folder1, folder1 lists
\* file2.txt, and every remote call succeeds.
ScenarioRoot == <<Item("blob", "b1"), Item("tree", "t1")>>
ScenarioFolder == <<Item("blob", "b2")>>
ScenarioRan ==
    /\ Done
    /\ Len(calls) = 3
    /\ \A i \in 1..3 : calls[i].status = "ok"
    /\ calls[2].tree = ScenarioRoot
    /\ calls[3].sha = "t1"
    /\ calls[3].tree = ScenarioFolder

ScenarioEvents ==
    <<Shown("branch", BranchText),
      Shown("status", <<"F", "o", "u", "n", "d", " ", "r", "o", "o", "t", " ", "d", "i", "r", "e", "c", "t", "o", "r", "y", " ", "w", "i", "t", "h", " ", "2", " ", "i", "t", "e", "m", "s">>),
      Shown("file", <<"f", "i", "l", "e", "1", ".", "t", "x", "t">>),
      Shown("status", <<"P", "r", "o", "c", "e", "s", "s", "e", "d", " ", "1", " ", "f", "i", "l", "e", "s", " ", "i", "n", " ", "r", "o", "o", "t", " ", "d", "i", "r", "e", "c", "t", "o", "r", "y">>),
      Shown("status", <<"F", "o", "u", "n", "d", " ", "1", " ", "d", "i", "r", "e", "c", "t", "o", "r", "i", "e", "s", " ", "t", "o", " ", "p", "r", "o", "c", "e", "s", "s">>),
      Shown("status", <<"P", "r", "o", "c", "e", "s", "s", "i", "n", "g", " ", "d", "i", "r", "e", "c", "t", "o", "r", "y", ":", " ", "f", "o", "l", "d", "e", "r", "1">>),
      Shown("file", <<"f", "o", "l", "d", "e", "r", "1", "/", "f", "i", "l", "e", "2", ".", "t", "x", "t">>),
      Shown("status", <<"C", "o", "m", "p", "l", "e", "t", "e", "d", " ", "d", "i", "r", "e", "c", "t", "o", "r", "y", " ", "f", "o", "l", "d", "e", "r", "1", ":", " ", "F", "o", "u", "n", "d", " ", "1", " ", "f", "i", "l", "e", "s", " ", "(", "t", "o", "t", "a", "l", ":", " ", "2", ")">>),
      Shown("status", <<"C", "o", "m", "p", "l", "e", "t", "e", "d", " ", "b", "a", "t", "c", "h", " ", "1", ":", " ", "p", "r", "o", "c", "e", "s", "s", "e", "d", " ", "1", " ", "d", "i", "r", "e", "c", "t", "o", "r", "i", "e", "s", ",", " ", "f", "o", "u", "n", "d", " ", "2", " ", "f", "i", "l", "e", "s", " ", "t", "o", "t", "a", "l">>),
      Shown("complete", <<"2", ",", "1">>)>>

\* C15: in the scenario the events emitted are exactly branch, status (root
\* found), file file1.txt, status (root summary), status (directories to
\* process), status (processing folder1), file folder1/file2.txt, status
\* (folder1 summary), status (batch summary), complete with 2 files and 1
\* directory, and no other event.
C15_ScenarioEvents == ScenarioRan => ShownEvents = ScenarioEvents

\* The getBranch call failed with the given status.
BranchFailedWith(status) ==
    Done /\ Len(calls) >= 1 /\ calls[1].status \in BranchFailures
         /\ StatusCodeOf(calls[1].status) = status

\* C16: when getBranch failed because the remote answered 404, the error
\* event carries the "Branch '<name>' not found" message; after any other
\* failure of getBranch it carries the "Failed to fetch branch" message.
C16_NotFoundDistinct ==
    /\ BranchFailedWith(404) => MessageOf(gen.events[1]) = NotFoundMessage
    /\ (Done /\ BranchFailed /\ ~BranchFailedWith(404))
          => IsPrefix(<<"F", "a", "i", "l", "e", "d", " ", "t", "o", " ", "f", "e", "t", "c", "h", " ", "b", "r", "a", "n", "c", "h">>, MessageOf(gen.events[1]))

----------------------------------------------------------------------------
(***************************************************************************)
(* Properties of the client decoder.                                       *)
(***************************************************************************)
\* The callbacks dispatched when all of bytes arrive as one chunk and the
\* stream then ends.
EndOf(c) == processRemainingBuffer(c, c.buffer).dispatched
WholeDecode(bytes) ==
    EndOf(processBuffer([HookInit EXCEPT !.buffer = Decode(bytes, FALSE).text]))

\* C7: whatever way the bytes of a response were split into chunks, once the
\* stream has ended the callbacks dispatched, with their arguments and in
\* their order, are those dispatched when the bytes arrive as one chunk.
C7_ChunkIndependent == cl.phase = "closed" => cl.dispatched = WholeDecode(input)

\* C7: a stream has ended after a chunk boundary fell inside a line, and at
\* least two callbacks were dispatched.
C7_Witness == cl.phase = "closed" /\ cl.cutInLine /\ Len(cl.dispatched) >= 2

\* The callbacks of the objects the scanner recovers from buffer.
RECURSIVE CallsOfAll(_)
CallsOfAll(jsons) ==
    IF jsons = <<>> THEN <<>>
    ELSE processJsonLine(Head(jsons)).calls \o CallsOfAll(Tail(jsons))
ScannedCalls(buffer) == CallsOfAll(tryFixAndParseMultipleJsons(buffer))

\* C8: when the stream has ended with a non-blank residual that is not one
\* JSON value, the callbacks of every object the scanner recovers from the
\* residual are the last ones dispatched.
C8_ResidualScanned ==
    (cl.phase = "closed" /\ TrimNonEmpty(cl.buffer) /\ ~JsonParse(cl.buffer).ok)
        => IsSuffix(ScannedCalls(cl.buffer), cl.dispatched)

\* Some callback of the given kind was dispatched.
Dispatched(cb) == \E i \in DOMAIN cl.dispatched : cl.dispatched[i].cb = cb

\* The stream has ended and the client received neither `complete` nor `error`.
EndedUnterminated ==
    cl.phase = "closed" /\ ~Dispatched("onComplete") /\ ~Dispatched("onError")

\* C12: when the stream has ended without the client having received a
\* `complete` or an `error` event, the state holds an error indication.
C12_AbnormalEndFlagged == EndedUnterminated => cl.error # JsNull

\* A complete line that is not blank and is not valid JSON.
IsMalformed(line) == TrimNonEmpty(line) /\ ~JsonParse(line).ok

RECURSIVE Unsplit(_)
Unsplit(lines) ==
    IF lines = <<>> THEN <<>> ELSE Head(lines) \o <<"\n">> \o Unsplit(Tail(lines))

\* The text without its malformed complete lines; what follows the last
\* newline is kept as it is.
WithoutMalformed(text) ==
    LET lines == Split(text)
    IN Unsplit(SelectSeq(SubSeq(lines, 1, Len(lines) - 1), LAMBDA l : ~IsMalformed(l)))
         \o LastLine(lines)

HasMalformed(text) ==
    LET lines == Split(text) IN \E i \in 1..(Len(lines) - 1) : IsMalformed(lines[i])

\* The state after text arrived as one chunk and the stream then ended.
EndState(c) == processRemainingBuffer([c EXCEPT !.isLoading = FALSE], c.buffer)
RunOn(text) == EndState(processBuffer([HookInit EXCEPT !.buffer = text]))

\* The aggregate state and the callbacks dispatched.
Aggregate(c) ==
    [files |-> c.files, totalFilesNum |-> c.totalFilesNum, fileCountRef |-> c.fileCountRef,
     branchName |-> c.branchName, currentStatus |-> c.currentStatus, error |-> c.error,
     isLoading |-> c.isLoading, dispatched |-> c.dispatched]

\* C14: once the stream has ended, the callbacks dispatched and the aggregate
\* state (file list, counts, branch, status, error, loading flag) are those of
\* the same response with its malformed complete lines taken out: such a line
\* invokes no callback, changes nothing, and the lines after it are processed.
C14_MalformedLineDropped ==
    cl.phase = "closed" => Aggregate(cl) = Aggregate(RunOn(WithoutMalformed(Decode(input, FALSE).text)))

\* C14: a stream has ended whose first line was malformed, a chunk boundary
\* fell inside a line, and a callback of a later line was dispatched.
C14_Witness ==
    /\ cl.phase = "closed"
    /\ IsPrefix(<<"{", "b", "a", "d", "}", "\n">>, input)
    /\ cl.cutInLine
    /\ Len(cl.dispatched) >= 1

----------------------------------------------------------------------------
(***************************************************************************)
(* Properties of the scanner.                                              *)
(***************************************************************************)
ScanDone == scan.pc = "done"
AllValid(parts) == \A i \in DOMAIN parts : parts[i].valid
SpanAt(parts) == CHOOSE i \in DOMAIN parts : ~parts[i].valid
HasSpan(parts) == \E i \in DOMAIN parts : ~parts[i].valid

\* The texts of the valid objects among parts[lo..hi], in order.
RECURSIVE ValidTexts(_, _, _)
ValidTexts(parts, lo, hi) ==
    IF lo > hi THEN <<>>
    ELSE (IF parts[lo].valid THEN <<parts[lo].text>> ELSE <<>>) \o ValidTexts(parts, lo + 1, hi)

\* C9: for a buffer of N valid objects and nothing else, the scanner has
\* reported exactly the N objects' texts, in left-to-right order.
C9_ObjectsReported ==
    (ScanDone /\ AllValid(scan.parts))
        => scan.reported = ValidTexts(scan.parts, 1, Len(scan.parts))

\* C9: the scanner has finished a buffer of three objects and reported three.
C9_Witness ==
    ScanDone /\ AllValid(scan.parts) /\ Len(scan.parts) = 3 /\ Len(scan.reported) = 3

\* C10 as stated: with one invalid span among the objects, the scanner has
\* reported exactly the valid objects.
C10_SpanSkipped ==
    (ScanDone /\ HasSpan(scan.parts))
        => scan.reported = ValidTexts(scan.parts, 1, Len(scan.parts))

\* A text that parses as a JSON object.
ObjectParsed(r) == r.ok /\ r.v.k = "obj"
IsObjectText(t) == ObjectParsed(JsonParse(t))

\* A span with no double quote, no part that is itself a JSON object, and no
\* white space at its end.
PlainSpan(span) ==
    /\ \A i \in DOMAIN span : span[i] # "\""
    /\ \A i \in DOMAIN span : \A j \in i..Len(span) : ~IsObjectText(SubSeq(span, i, j))
    /\ span[Len(span)] \notin ReWS

\* C10: with one invalid span among the objects, the objects before the span
\* have been reported first and in order; when the span has no double quote,
\* no part that is a JSON object and no white space at its end, exactly the
\* valid objects have been reported.
C10_PlainSpanSkipped ==
    (ScanDone /\ HasSpan(scan.parts))
        => /\ IsPrefix(ValidTexts(scan.parts, 1, SpanAt(scan.parts)), scan.reported)
           /\ PlainSpan(scan.parts[SpanAt(scan.parts)].text)
                 => scan.reported = ValidTexts(scan.parts, 1, Len(scan.parts))

\* C10: the scanner has finished a buffer with a plain span between two
\* objects and reported the objects on both sides.
C10_Witness ==
    /\ ScanDone
    /\ HasSpan(scan.parts)
    /\ SpanAt(scan.parts) > 1
    /\ SpanAt(scan.parts) < Len(scan.parts)
    /\ PlainSpan(scan.parts[SpanAt(scan.parts)].text)
    /\ scan.reported = ValidTexts(scan.parts, 1, Len(scan.parts))

----------------------------------------------------------------------------
(***************************************************************************)
(* processJsonLine as a function of its line.  A line is written from the  *)
(* members it holds, so that the value it stands for is known without      *)
(* parsing it.                                                             *)
(***************************************************************************)
Field(key, text, val) == [key |-> key, text |-> text, val |-> val]
StringField(key, s) == Field(key, JsonString(s), JsStr(s))
NumberField(key, n) == Field(key, NatText(n), JsNum(n, 0))

TypeNames ==
    {<<"e", "r", "r", "o", "r">>, <<"c", "o", "m", "p", "l", "e", "t", "e">>, <<"b", "r", "a", "n", "c", "h">>, <<"s", "t", "a", "t", "u", "s">>, <<"w", "a", "r", "n", "i", "n", "g">>, <<"b", "l", "o", "b">>}

TypeFields == {StringField(K_type, name) : name \in TypeNames} \cup {NumberField(K_type, 7)}

MessageFields ==
    {StringField(K_message, <<>>), StringField(K_message, <<"m">>),
     StringField(K_message, <<"t", "o", "t", "a", "l", ":", " ", "7">>), NumberField(K_message, 5),
     Field(K_message, <<"n", "u", "l", "l">>, JsNull)}

FilesProcessedFields ==
    {NumberField(K_files_processed, 0), NumberField(K_files_processed, 3),
     StringField(K_files_processed, <<"3">>)}

PathFields == {StringField(K_path, <<"a">>), StringField(K_path, <<>>), NumberField(K_path, 5)}

SizeFields == {NumberField(K_size, 1), NumberField(K_size, 0), StringField(K_size, <<"1">>)}

NameFields == {<<StringField(K_name, <<"m", "a", "i", "n">>), NumberField(K_total_files, 2)>>}

\* No member of a kind, or one of them.
Opt(fields) == {<<>>} \cup {<<f>> : f \in fields}

LineObjects ==
    {ty \o m \o fp \o pa \o sz \o nt :
        ty \in Opt(TypeFields), m \in Opt(MessageFields), fp \in Opt(FilesProcessedFields),
        pa \in Opt(PathFields), sz \in Opt(SizeFields), nt \in {<<>>} \cup NameFields}

RECURSIVE MembersText(_, _)
MembersText(fields, i) ==
    IF i > Len(fields) THEN <<>>
    ELSE (IF i > 1 THEN <<",">> ELSE <<>>) \o JsonString(fields[i].key) \o <<":">>
           \o fields[i].text \o MembersText(fields, i + 1)

ObjectText(fields) == <<"{">> \o MembersText(fields, 1) \o <<"}">>
ObjectValue(fields) == JsObj([i \in DOMAIN fields |-> [key |-> fields[i].key, val |-> fields[i].val]])

\* A line: its text, whether it is valid JSON, and the value it stands for.
LineOf(text, valid, val) == [text |-> text, valid |-> valid, val |-> val]

LineInputs ==
    {LineOf(ObjectText(fields), TRUE, ObjectValue(fields)) : fields \in LineObjects}
      \cup {LineOf(<<"5">>, TRUE, JsNum(5, 0)),
            LineOf(<<"n", "u", "l", "l">>, TRUE, JsNull),
            LineOf(<<"\"", "s", "\"">>, TRUE, JsStr(<<"s">>)),
            LineOf(<<"[", "]">>, TRUE, JsArr(<<>>)),
            LineOf(<<"{", "b", "a", "d", "}">>, FALSE, Undefined),
            LineOf(<<"{", "\"", "p", "a", "t", "h", "\"", ":", "\"", "a", "\"", ",", "\"", "s", "i", "z", "e", "\"", ":", "1">>, FALSE, Undefined),
            LineOf(<<>>, FALSE, Undefined)}

\* stream-processing.ts:127-134, processJsonLine is called with a line.
LineCall(in) == [op |-> "processJsonLine", pc |-> "called", line |-> in, result |-> LineResult(<<>>, Undefined)]

\* stream-processing.ts:135-175, the call runs and returns.
ProcessJsonLineReturn ==
    /\ lib.op = "processJsonLine"
    /\ lib.pc = "called"
    /\ lib' = [lib EXCEPT !.pc = "returned", !.result = processJsonLine(lib.line.text)]
    /\ UNCHANGED <<cl, wire, input, scan, serverSide>>

InitLine ==
    /\ gen = GenInit
    /\ calls = <<>>
    /\ budget = MaxItems
    /\ wideLeft = TRUE
    /\ cl = HookInit
    /\ input = <<>>
    /\ wire = <<>>
    /\ scan = ScanIdle
    /\ \E in \in LineInputs : lib = LineCall(in)

NextLine == ProcessJsonLineReturn

SpecLine == InitLine /\ [][NextLine]_vars

----------------------------------------------------------------------------
(***************************************************************************)
(* Properties of processJsonLine.                                          *)
(***************************************************************************)
LineReturned == lib.op = "processJsonLine" /\ lib.pc = "returned"

TypeIs(json, name) == Get(json, K_type) = JsStr(name)

One(cb, args) == <<CallOf(cb, args)>>

\* The count that goes with a status or warning line of the lines above.
GivenCount(json) ==
    IF Get(json, K_files_processed) = JsNum(3, 0) THEN JsNum(3, 0) ELSE Undefined
StatusCount(json) ==
    IF GivenCount(json) # Undefined THEN GivenCount(json)
    ELSE IF Get(json, K_message) = JsStr(<<"t", "o", "t", "a", "l", ":", " ", "7">>) THEN JsNum(7, 0)
    ELSE Undefined

HasPathAndSize(json) ==
    /\ Get(json, K_path).k = "str"
    /\ Get(json, K_path).s # <<>>
    /\ Get(json, K_size).k = "num"

\* The callbacks of a line by its type, given those of a status line.
CallsByType(json, statusCalls) ==
    IF TypeIs(json, <<"e", "r", "r", "o", "r">>) THEN One("onError", <<Get(json, K_message)>>)
    ELSE IF TypeIs(json, <<"c", "o", "m", "p", "l", "e", "t", "e">>) THEN One("onComplete", <<Get(json, K_total_files)>>)
    ELSE IF TypeIs(json, <<"b", "r", "a", "n", "c", "h">>) THEN One("onBranch", <<Get(json, K_name)>>)
    ELSE IF TypeIs(json, <<"s", "t", "a", "t", "u", "s">>) THEN statusCalls
    ELSE IF TypeIs(json, <<"w", "a", "r", "n", "i", "n", "g">>)
         THEN One("onStatus", <<JsStr(<<"W", "a", "r", "n", "i", "n", "g", ":", " ">> \o JsToString(Get(json, K_message))),
                                GivenCount(json)>>)
    ELSE IF HasPathAndSize(json) THEN One("onFile", <<json>>)
    ELSE <<>>

StatusCall(json) == One("onStatus", <<Get(json, K_message), StatusCount(json)>>)

CallsOfLine(in, statusCalls) == IF in.valid THEN CallsByType(in.val, statusCalls) ELSE <<>>

\* C13, as stated: the callbacks of a line are those its type chooses, a
\* status line always invoking onStatus(message, count).
C13_AsStated ==
    LineReturned => lib.result.calls = CallsOfLine(lib.line, StatusCall(lib.line.val))

\* C13: processJsonLine invokes at most one callback per line, chosen by the
\* type: error -> onError(message); complete -> onComplete(total_files);
\* branch -> onBranch(name); status -> onStatus(message, count) when the
\* message is not empty, null or missing, and no callback otherwise; warning
\* -> onStatus('Warning: ' + message, count); any other or missing type ->
\* onFile(object) iff the object has a non-empty string path and a numeric
\* size, otherwise no callback.  A line that is not valid JSON has none.
C13_OneCallbackByType ==
    LineReturned =>
        lib.result.calls =
            CallsOfLine(lib.line,
                        IF Truthy(Get(lib.line.val, K_message)) THEN StatusCall(lib.line.val)
                        ELSE <<>>)

\* C13: a status line without a message has returned, and no callback was invoked.
C13_Witness ==
    /\ LineReturned
    /\ lib.line.valid
    /\ TypeIs(lib.line.val, <<"s", "t", "a", "t", "u", "s">>)
    /\ Get(lib.line.val, K_message) = Undefined
    /\ lib.result.calls = <<>>

----------------------------------------------------------------------------
(***************************************************************************)
(* GitHubClient: its construction and one call of one of its operations.   *)
(***************************************************************************)
Operations == {"getRepoInfo", "getBranch", "getTreeFiles", "checkRepoExists"}

\* All the operations that issue a remote request.
ClientOperations == Operations \cup {"getRateLimit"}

\* Number of calls made on one client.
MaxRequests == 2

\* The values of GITHUB_ACCESS_TOKEN: not set, or set.
Tokens == {<<>>, <<"t">>}

\* github.ts:51
BaseUrl == <<"h", "t", "t", "p", "s", ":", "/", "/", "a", "p", "i", ".", "g", "i", "t", "h", "u", "b", ".", "c", "o", "m">>

Authorization_NoToken(token) == <<"B", "e", "a", "r", "e", "r", " ">>

\* github.ts:62-64
Authorization(token) == <<"B", "e", "a", "r", "e", "r", " ">> \o token

\* github.ts:78, 102, 126, 149
RequestUrl(op, owner, repo, arg) ==
    BaseUrl \o <<"/", "r", "e", "p", "o", "s", "/">> \o owner \o <<"/">> \o repo
      \o (CASE op = "getBranch" -> <<"/", "b", "r", "a", "n", "c", "h", "e", "s", "/">> \o arg
            [] op = "getTreeFiles" -> <<"/", "g", "i", "t", "/", "t", "r", "e", "e", "s", "/">> \o arg
            [] OTHER -> <<>>)

Request(url, headers) == [url |-> url, Authorization |-> headers]

\* The statuses the remote answers with, and their statusText.
Statuses == {200, 204, 304, 401, 403, 404, 500}
ReasonPhrase(status) ==
    CASE status = 200 -> <<"O", "K">>
      [] status = 204 -> <<"N", "o", " ", "C", "o", "n", "t", "e", "n", "t">>
      [] status = 304 -> <<"N", "o", "t", " ", "M", "o", "d", "i", "f", "i", "e", "d">>
      [] status = 401 -> <<"U", "n", "a", "u", "t", "h", "o", "r", "i", "z", "e", "d">>
      [] status = 403 -> <<"F", "o", "r", "b", "i", "d", "d", "e", "n">>
      [] status = 404 -> <<"N", "o", "t", " ", "F", "o", "u", "n", "d">>
      [] status = 500 -> <<"I", "n", "t", "e", "r", "n", "a", "l", " ", "S", "e", "r", "v", "e", "r", " ", "E", "r", "r", "o", "r">>

\* What response.json() holds: data the operation's schema accepts (with its
\* default_branch), or not.
Bodies ==
    {[valid |-> TRUE, default_branch |-> BranchText],
     [valid |-> TRUE, default_branch |-> <<>>],
     [valid |-> FALSE, default_branch |-> <<>>]}

Responses == [status : Statuses, body : Bodies]

\* response.ok
Ok(response) == response.status \in 200..299

\* How a call ends.
Thrown(message) == [kind |-> "thrown", message |-> message, value |-> Undefined]
Returned(value) == [kind |-> "returned", message |-> <<>>, value |-> value]
Pending == [kind |-> "pending", message |-> <<>>, value |-> Undefined]

\* github.ts:60
TokenError == <<"G", "I", "T", "H", "U", "B", "_", "A", "C", "C", "E", "S", "S", "_", "T", "O", "K", "E", "N", " ", "e", "n", "v", "i", "r", "o", "n", "m", "e", "n", "t", " ", "v", "a", "r", "i", "a", "b", "l", "e", " ", "i", "s", " ", "n", "o", "t", " ", "s", "e", "t", ".">>

ArgsMissing_OwnerOnly(owner, repo) == owner = <<>>

\* github.ts:75, 99, 123, 146: !owner || !repo
ArgsMissing(owner, repo) == owner = <<>> \/ repo = <<>>

\* github.ts:76, 100, 124, 147
ArgsError(op) ==
    <<"O", "w", "n", "e", "r", " ", "a", "n", "d", " ", "r", "e", "p", "o", " ", "m", "u", "s", "t", " ", "b", "e", " ", "p", "r", "o", "v", "i", "d", "e", "d", " ", "t", "o", " ">>
      \o (CASE op = "getRepoInfo" -> <<"f", "e", "t", "c", "h", " ", "r", "e", "p", "o", " ", "i", "n", "f", "o", ".">>
            [] op = "getBranch" -> <<"f", "e", "t", "c", "h", " ", "b", "r", "a", "n", "c", "h", " ", "i", "n", "f", "o", ".">>
            [] op = "getTreeFiles" -> <<"f", "e", "t", "c", "h", " ", "t", "r", "e", "e", " ", "f", "i", "l", "e", "s", ".">>
            [] op = "checkRepoExists" -> <<"c", "h", "e", "c", "k", " ", "r", "e", "p", "o", "s", "i", "t", "o", "r", "y", " ", "e", "x", "i", "s", "t", "e", "n", "c", "e", ".">>)

\* github.ts:83, 107, 131, 158
ResponseFailure(op, response) ==
    (CASE op = "getRepoInfo" -> <<"F", "a", "i", "l", "e", "d", " ", "t", "o", " ", "f", "e", "t", "c", "h", " ", "r", "e", "p", "o", ":", " ">>
       [] op = "getBranch" -> <<"F", "a", "i", "l", "e", "d", " ", "t", "o", " ", "f", "e", "t", "c", "h", " ", "b", "r", "a", "n", "c", "h", ":", " ">>
       [] op = "getTreeFiles" -> <<"F", "a", "i", "l", "e", "d", " ", "t", "o", " ", "f", "e", "t", "c", "h", " ", "t", "r", "e", "e", " ", "f", "i", "l", "e", "s", ":", " ">>
       [] op = "checkRepoExists" -> <<"F", "a", "i", "l", "e", "d", " ", "t", "o", " ", "c", "h", "e", "c", "k", " ", "r", "e", "p", "o", " ", "e", "x", "i", "s", "t", "e", "n", "c", "e", ":", " ">>)
      \o ReasonPhrase(response.status)

\* The message of the ZodError of a body the schema rejects.
SchemaError == <<"[", "{", "\"", "c", "o", "d", "e", "\"", ":", "\"", "i", "n", "v", "a", "l", "i", "d", "_", "t", "y", "p", "e", "\"", ",", "\"", "e", "x", "p", "e", "c", "t", "e", "d", "\"", ":", "\"", "s", "t", "r", "i", "n", "g", "\"", ",", "\"", "r", "e", "c", "e", "i", "v", "e", "d", "\"", ":", "\"", "u", "n", "d", "e", "f", "i", "n", "e", "d", "\"", ",", "\"", "m", "e", "s", "s", "a", "g", "e", "\"", ":", "\"", "R", "e", "q", "u", "i", "r", "e", "d", "\"", "}", "]">>

\* The message of the TypeError a failed fetch rejects with.
FetchError == <<"f", "e", "t", "c", "h", " ", "f", "a", "i", "l", "e", "d">>

\* github.ts:81-87, 105-111, 129-135
DataResult(op, response) ==
    IF ~Ok(response) THEN Thrown(ResponseFailure(op, response))
    ELSE IF ~response.body.valid THEN Thrown(SchemaError)
    ELSE Returned(JsObj(<<[key |-> <<"d", "e", "f", "a", "u", "l", "t", "_", "b", "r", "a", "n", "c", "h">>, val |-> JsStr(response.body.default_branch)]>>))

checkRepoExists_FalseOnFailure(response) ==
    IF ~Ok(response) THEN Returned(JsBool(FALSE)) ELSE Returned(JsBool(TRUE))

\* github.ts:152-161
checkRepoExists(response) ==
    IF response.status = 404 THEN Returned(JsBool(FALSE))
    ELSE IF ~Ok(response) THEN Thrown(ResponseFailure("checkRepoExists", response))
    ELSE Returned(JsBool(TRUE))

NoResponse == [status |-> 0, body |-> [valid |-> FALSE, default_branch |-> <<>>]]

ClientCall(op, owner, repo, token) ==
    [op |-> op, pc |-> "new", owner |-> owner, repo |-> repo, token |-> token,
     headers |-> <<>>, requests |-> <<>>, response |-> NoResponse, outcome |-> Pending,
     earlier |-> <<>>, made |-> 1]

\* github.ts:57-65, new GitHubClient()
Construct ==
    /\ lib.op \in ClientOperations
    /\ lib.pc = "new"
    /\ lib' = IF lib.token = <<>>
              THEN [lib EXCEPT !.pc = "thrown", !.outcome = Thrown(TokenError)]
              ELSE [lib EXCEPT !.pc = "called", !.headers = Authorization(lib.token)]
    /\ UNCHANGED <<cl, wire, input, scan, serverSide>>

\* github.ts:74-79, 98-103, 122-127, 145-150: the guard, then the fetch is issued.
CallOperation ==
    /\ lib.op \in Operations
    /\ lib.pc = "called"
    /\ lib' = IF ArgsMissing(lib.owner, lib.repo)
              THEN [lib EXCEPT !.pc = "thrown", !.outcome = Thrown(ArgsError(lib.op))]
              ELSE [lib EXCEPT !.pc = "fetching",
                               !.requests = Append(@, Request(RequestUrl(lib.op, lib.owner, lib.repo, BranchText),
                                                              lib.headers))]
    /\ UNCHANGED <<cl, wire, input, scan, serverSide>>

\* The fetch resolves with a response.
FetchResolved ==
    /\ lib.op \in ClientOperations
    /\ lib.pc = "fetching"
    /\ \E response \in Responses : lib' = [lib EXCEPT !.pc = "responded", !.response = response]
    /\ UNCHANGED <<cl, wire, input, scan, serverSide>>

\* The fetch rejects; the operation rejects with the same error.
FetchRejected ==
    /\ lib.op \in ClientOperations
    /\ lib.pc = "fetching"
    /\ lib' = [lib EXCEPT !.pc = "thrown", !.outcome = Thrown(FetchError)]
    /\ UNCHANGED <<cl, wire, input, scan, serverSide>>

Settled(frame, outcome) ==
    [frame EXCEPT !.pc = outcome.kind, !.outcome = outcome]

\* github.ts:81-87, 105-111, 129-135
DataResponded ==
    /\ lib.op \in Operations \ {"checkRepoExists"}
    /\ lib.pc = "responded"
    /\ lib' = Settled(lib, DataResult(lib.op, lib.response))
    /\ UNCHANGED <<cl, wire, input, scan, serverSide>>

\* github.ts:152-161
CheckRepoExistsResponded ==
    /\ lib.op = "checkRepoExists"
    /\ lib.pc = "responded"
    /\ lib' = Settled(lib, checkRepoExists(lib.response))
    /\ UNCHANGED <<cl, wire, input, scan, serverSide>>

\* github.ts:173-179, the message of the error getRateLimit throws; the
\* remote's own message, when the body holds one, is appended to it.
RateLimitFailure(response) ==
    <<"F", "a", "i", "l", "e", "d", " ", "t", "o", " ", "f", "e", "t", "c", "h", " ", "r", "a", "t", "e", " ", "l", "i", "m", "i", "t", ":", " ">> \o NatText(response.status) \o <<" ">> \o ReasonPhrase(response.status)

\* github.ts:173-182
getRateLimit(response) ==
    IF ~Ok(response) THEN Thrown(RateLimitFailure(response))
    ELSE IF ~response.body.valid THEN Thrown(SchemaError)
    ELSE Returned(JsObj(<<>>))

\* github.ts:169-171, getRateLimit issues its fetch.
CallRateLimit ==
    /\ lib.op = "getRateLimit"
    /\ lib.pc = "called"
    /\ lib' = [lib EXCEPT !.pc = "fetching",
                          !.requests = Append(@, Request(BaseUrl \o <<"/", "r", "a", "t", "e", "_", "l", "i", "m", "i", "t">>, lib.headers))]
    /\ UNCHANGED <<cl, wire, input, scan, serverSide>>

\* github.ts:173-182
RateLimitResponded ==
    /\ lib.op = "getRateLimit"
    /\ lib.pc = "responded"
    /\ lib' = Settled(lib, getRateLimit(lib.response))
    /\ UNCHANGED <<cl, wire, input, scan, serverSide>>

\* A call has ended and another operation is called on the same client.
CallAgain ==
    /\ lib.op \in ClientOperations
    /\ lib.pc \in {"returned", "thrown"}
    /\ lib.headers # <<>>
    /\ lib.made < MaxRequests
    /\ \E op \in ClientOperations, owner \in {<<>>, Owner}, repo \in {<<>>, Repo} :
          lib' = [lib EXCEPT !.op = op, !.pc = "called", !.owner = owner, !.repo = repo,
                             !.earlier = @ \o lib.requests, !.requests = <<>>,
                             !.response = NoResponse, !.outcome = Pending, !.made = @ + 1]
    /\ UNCHANGED <<cl, wire, input, scan, serverSide>>

InitClient ==
    /\ gen = GenInit
    /\ calls = <<>>
    /\ budget = MaxItems
    /\ wideLeft = TRUE
    /\ cl = HookInit
    /\ input = <<>>
    /\ wire = <<>>
    /\ scan = ScanIdle
    /\ \E op \in ClientOperations, owner \in {<<>>, Owner}, repo \in {<<>>, Repo}, token \in Tokens :
          lib = ClientCall(op, owner, repo, token)

NextClient ==
    \/ Construct
    \/ CallOperation
    \/ FetchResolved
    \/ FetchRejected
    \/ DataResponded
    \/ CheckRepoExistsResponded
    \/ CallRateLimit
    \/ RateLimitResponded
    \/ CallAgain

SpecClient == InitClient /\ [][NextClient]_vars

----------------------------------------------------------------------------
(***************************************************************************)
(* Properties of GitHubClient.                                             *)
(***************************************************************************)
CheckEnded ==
    lib.op = "checkRepoExists" /\ lib.pc \in {"returned", "thrown"} /\ lib.response # NoResponse

\* C19: a call of checkRepoExists that got a response returns false exactly
\* when the status is 404, returns true when the status is a success status,
\* and throws for any other status.
C19_FalseOnlyOn404 ==
    CheckEnded =>
        /\ lib.outcome = Returned(JsBool(FALSE)) <=> lib.response.status = 404
        /\ lib.response.status \in 200..299 => lib.outcome = Returned(JsBool(TRUE))
        /\ lib.response.status \notin (200..299) \cup {404} => lib.pc = "thrown"

\* C19: checkRepoExists has thrown after the remote answered 403.
C19_Witness == CheckEnded /\ lib.response.status = 403 /\ lib.pc = "thrown"

\* C20: an operation called with an empty owner or an empty repo issues no
\* request and never returns: it is not yet called, or it has thrown.
C20_EmptyArgsRejected ==
    (lib.op \in Operations /\ (lib.owner = <<>> \/ lib.repo = <<>>))
        => /\ lib.requests = <<>>
           /\ lib.pc \in {"new", "called", "thrown"}

\* All the requests issued through the client so far.
AllRequests == lib.earlier \o lib.requests

\* C21: without the credential the constructor throws, so no operation is
\* ever called and no request issued; every request of a constructed client
\* carries the Authorization header "Bearer <credential>".
C21_BearerOnEveryRequest ==
    lib.op \in ClientOperations =>
        /\ lib.token = <<>> => lib.pc \in {"new", "thrown"} /\ AllRequests = <<>>
        /\ \A i \in DOMAIN AllRequests :
              AllRequests[i].Authorization = <<"B", "e", "a", "r", "e", "r", " ">> \o lib.token

\* C21: two requests were issued through one client, the second by another
\* operation than the first.
C21_Witness ==
    /\ lib.op \in ClientOperations
    /\ Len(lib.earlier) = 1
    /\ Len(lib.requests) = 1
    /\ lib.earlier[1].url # lib.requests[1].url

\* C20: getTreeFiles, called on a constructed client with an owner and an
\* empty repo, has thrown the error of its guard.
C20_Witness ==
    /\ lib.op = "getTreeFiles"
    /\ lib.owner # <<>>
    /\ lib.repo = <<>>
    /\ lib.pc = "thrown"
    /\ lib.outcome = Thrown(ArgsError("getTreeFiles"))

----------------------------------------------------------------------------
(***************************************************************************)
(* The POST handler of the streaming route, up to its response.  The       *)
(* environment holds the access token, so new GitHubClient() succeeds.     *)
(***************************************************************************)
\* Longest path of a request URL, in segments.
MaxSegments == 4

GithubPrefixes == {<<"h", "t", "t", "p", "s", ":", "/", "/", "g", "i", "t", "h", "u", "b", ".", "c", "o", "m", "/">>, <<"h", "t", "t", "p", ":", "/", "/", "g", "i", "t", "h", "u", "b", ".", "c", "o", "m", "/">>}
UrlPrefixes == GithubPrefixes \cup {<<"h", "t", "t", "p", "s", ":", "/", "/", "g", "i", "t", "l", "a", "b", ".", "c", "o", "m", "/">>, <<>>}
SegmentNames == {<<>>, Owner, Repo, <<"t", "r", "e", "e">>, <<"b", "l", "o", "b">>, <<"d", "e", "v">>}

RECURSIVE JoinBy(_, _)
JoinBy(segments, sep) ==
    IF segments = <<>> THEN <<>>
    ELSE IF Len(segments) = 1 THEN segments[1]
    ELSE segments[1] \o sep \o JoinBy(Tail(segments), sep)

\* The bodies of the requests: not JSON, JSON without a url, or a url
\* written as a prefix and the segments of a path.
RequestBody(kind, prefix, segments) ==
    [kind |-> kind, prefix |-> prefix, segments |-> segments,
     url |-> prefix \o JoinBy(segments, <<"/">>)]

RequestBodies ==
    {RequestBody("invalid", <<>>, <<>>), RequestBody("nourl", <<>>, <<>>)}
      \cup {RequestBody("url", prefix, segments) :
              prefix \in UrlPrefixes, segments \in SeqsUpTo(SegmentNames, MaxSegments)}

\* route.ts:5-7, z.string().url() on the urls above: a scheme and a host.
IsUrl(url) ==
    \E scheme \in {<<"h", "t", "t", "p", ":", "/", "/">>, <<"h", "t", "t", "p", "s", ":", "/", "/">>} : IsPrefix(scheme, url) /\ Len(url) > Len(scheme)

\* route.ts:269, url.replace(/^https?:\/\/github\.com\//, "")
StripGithub(url) ==
    IF IsPrefix(<<"h", "t", "t", "p", "s", ":", "/", "/", "g", "i", "t", "h", "u", "b", ".", "c", "o", "m", "/">>, url) THEN Slice(url, 19)
    ELSE IF IsPrefix(<<"h", "t", "t", "p", ":", "/", "/", "g", "i", "t", "h", "u", "b", ".", "c", "o", "m", "/">>, url) THEN Slice(url, 18)
    ELSE url

\* String.prototype.split("/")
RECURSIVE SplitBy(_, _)
SplitBy(s, sep) ==
    IF IndexOf(s, sep) = -1 THEN <<s>>
    ELSE <<Prefix(s, IndexOf(s, sep))>> \o SplitBy(Slice(s, IndexOf(s, sep) + 1), sep)

\* route.ts:269
FormattedUrl(url) == SplitBy(StripGithub(url), "/")

\* The response of the handler.
ErrorResponse(status) == [kind |-> "error", status |-> status, branch |-> <<>>]
StreamResponse(branch) == [kind |-> "stream", status |-> 200, branch |-> branch]
NoAnswer == [kind |-> "none", status |-> 0, branch |-> <<>>]

NeedsLookup_NoTrailing(formattedUrl) == Len(formattedUrl) < 3

\* route.ts:282
NeedsLookup(formattedUrl) ==
    Len(formattedUrl) < 3 \/ (Len(formattedUrl) = 3 /\ formattedUrl[3] = <<>>)

\* route.ts:293-305, the branch named by the path, or the 400 response.
BranchOfPath(pathSegments) ==
    IF pathSegments[1] = <<"t", "r", "e", "e">> /\ Len(pathSegments) > 1 /\ pathSegments[2] # <<>>
    THEN StreamResponse(pathSegments[2])
    ELSE IF pathSegments[1] # <<"t", "r", "e", "e">> /\ pathSegments[1] # <<"b", "l", "o", "b">> /\ pathSegments[1] # <<>>
         THEN StreamResponse(pathSegments[1])
    ELSE ErrorResponse(400)

\* route.ts:288 and 313
LookupFailure(message) == ErrorResponse(IF Includes(message, <<"4", "0", "4">>) THEN 404 ELSE 500)

PostCall(body) ==
    [op |-> "POST", pc |-> "called", body |-> body, formattedUrl |-> <<>>,
     lookups |-> <<>>, answer |-> NoAnswer]

Respond(frame, answer) == [frame EXCEPT !.pc = "responded", !.answer = answer]

\* route.ts:268-305, from the url to the first lookup or to the response.
PostUrl(frame, formattedUrl) ==
    LET f == [frame EXCEPT !.formattedUrl = formattedUrl] IN
    IF formattedUrl[1] = <<>> \/ Len(formattedUrl) < 2 \/ formattedUrl[2] = <<>>
    THEN Respond(f, ErrorResponse(400))
    ELSE IF NeedsLookup(formattedUrl) THEN [f EXCEPT !.pc = "awaitRepoInfo"]
    ELSE Respond(f, BranchOfPath(SubSeq(formattedUrl, 3, Len(formattedUrl))))

\* route.ts:246-305
PostBegin ==
    /\ lib.op = "POST"
    /\ lib.pc = "called"
    /\ lib' = IF lib.body.kind = "invalid" THEN Respond(lib, ErrorResponse(400))
              ELSE IF lib.body.kind = "nourl" \/ ~IsUrl(lib.body.url)
                   THEN Respond(lib, ErrorResponse(400))
              ELSE PostUrl(lib, FormattedUrl(lib.body.url))
    /\ UNCHANGED <<cl, wire, input, scan, serverSide>>

\* How a getRepoInfo of the handler can end.
LookupOutcomes == {DataResult("getRepoInfo", response) : response \in Responses} \cup {Thrown(FetchError)}

DefaultBranch(outcome) == Get(outcome.value, <<"d", "e", "f", "a", "u", "l", "t", "_", "b", "r", "a", "n", "c", "h">>).s

\* route.ts:283-292 and 307, the first lookup ends.
RepoInfoSettled ==
    /\ lib.op = "POST"
    /\ lib.pc = "awaitRepoInfo"
    /\ \E outcome \in LookupOutcomes :
          LET f == [lib EXCEPT !.lookups = Append(@, outcome)] IN
          lib' = IF outcome.kind = "thrown" THEN Respond(f, LookupFailure(outcome.message))
                 ELSE IF DefaultBranch(outcome) = <<>> THEN [f EXCEPT !.pc = "awaitRepoInfoAgain"]
                 ELSE Respond(f, StreamResponse(DefaultBranch(outcome)))
    /\ UNCHANGED <<cl, wire, input, scan, serverSide>>

\* route.ts:307-329, the lookup made when branchToUse is empty ends.
RepoInfoSettledAgain ==
    /\ lib.op = "POST"
    /\ lib.pc = "awaitRepoInfoAgain"
    /\ \E outcome \in LookupOutcomes :
          LET f == [lib EXCEPT !.lookups = Append(@, outcome)] IN
          lib' = IF outcome.kind = "thrown" THEN Respond(f, LookupFailure(outcome.message))
                 ELSE Respond(f, StreamResponse(DefaultBranch(outcome)))
    /\ UNCHANGED <<cl, wire, input, scan, serverSide>>

InitPost ==
    /\ gen = GenInit
    /\ calls = <<>>
    /\ budget = MaxItems
    /\ wideLeft = TRUE
    /\ cl = HookInit
    /\ input = <<>>
    /\ wire = <<>>
    /\ scan = ScanIdle
    /\ \E body \in RequestBodies : lib = PostCall(body)

NextPost == PostBegin \/ RepoInfoSettled \/ RepoInfoSettledAgain

SpecPost == InitPost /\ [][NextPost]_vars

----------------------------------------------------------------------------
(***************************************************************************)
(* Properties of the POST handler.                                         *)
(***************************************************************************)
PostResponded == lib.op = "POST" /\ lib.pc = "responded"

\* The remote answered the last lookup with 404.
LastLookupNotFound ==
    lib.lookups[Len(lib.lookups)] = DataResult("getRepoInfo", [status |-> 404, body |-> NoResponse.body])

\* C17: an error response has status 400 when the input was rejected before
\* any remote call, 404 when the remote answered the lookup of the default
\* branch with 404, and 500 after every other failure.
C17_ErrorStatus ==
    (PostResponded /\ lib.answer.kind = "error") =>
        lib.answer.status = IF lib.lookups = <<>> THEN 400
                            ELSE IF LastLookupNotFound THEN 404
                            ELSE 500

\* The url is a GitHub url of an owner and a repo followed by tree/<branch>.
HasTreeMarker ==
    /\ lib.body.kind = "url"
    /\ lib.body.prefix \in GithubPrefixes
    /\ Len(lib.body.segments) >= 4
    /\ lib.body.segments[1] # <<>>
    /\ lib.body.segments[2] # <<>>
    /\ lib.body.segments[3] = <<"t", "r", "e", "e">>
    /\ lib.body.segments[4] # <<>>

\* The url is a GitHub url of an owner and a repo only, with or without a
\* trailing slash.
NamesNoBranch ==
    /\ lib.body.kind = "url"
    /\ lib.body.prefix \in GithubPrefixes
    /\ Len(lib.body.segments) \in {2, 3}
    /\ lib.body.segments[1] # <<>>
    /\ lib.body.segments[2] # <<>>
    /\ Len(lib.body.segments) = 3 => lib.body.segments[3] = <<>>

\* With a tree marker the response is the stream of that branch and no
\* lookup was made.
TreeMarkerUsed ==
    HasTreeMarker =>
        /\ lib.answer = StreamResponse(lib.body.segments[4])
        /\ lib.lookups = <<>>

\* The response is a stream of the default branch of the n-th lookup, or an error.
DefaultUsed(n) ==
    /\ Len(lib.lookups) = n
    /\ lib.answer.kind = "stream" =>
          /\ lib.lookups[n].kind = "returned"
          /\ lib.answer.branch = DefaultBranch(lib.lookups[n])

\* C18, as stated: with a tree marker the branch is the segment after it and
\* no lookup is made; with no branch in the url exactly one lookup is made
\* and its default branch is used.
C18_AsStated ==
    PostResponded => TreeMarkerUsed /\ (NamesNoBranch => DefaultUsed(1))

FirstDefaultEmpty ==
    /\ Len(lib.lookups) >= 1
    /\ lib.lookups[1].kind = "returned"
    /\ DefaultBranch(lib.lookups[1]) = <<>>

\* C18: with a tree marker the branch is the segment after it and no lookup
\* is made; with no branch in the url exactly one lookup is made and its
\* default branch is used, unless that lookup reports an empty default
\* branch: then a second lookup is made and its default branch is used.
C18_BranchDetermined ==
    PostResponded =>
        /\ TreeMarkerUsed
        /\ NamesNoBranch => IF FirstDefaultEmpty THEN DefaultUsed(2) ELSE DefaultUsed(1)

\* C18: the url was owner/repo/ with a trailing slash, one lookup was made
\* and the response is the stream of the default branch it reported.
C18_Witness ==
    /\ PostResponded
    /\ NamesNoBranch
    /\ Len(lib.body.segments) = 3
    /\ Len(lib.lookups) = 1
    /\ lib.answer = StreamResponse(BranchText)

----------------------------------------------------------------------------
(***************************************************************************)
(* formatFileSize as a function of its byte count.                         *)
(***************************************************************************)
\* The byte counts: every one from -2 to MaxSmall, those within Window of
\* one megabyte, and some more in the megabytes.
MaxSmall == 2100
Window == 600
Kilo == 1024
Mega == 1024 * 1024

ByteCounts ==
    (-2..MaxSmall) \cup ((Mega - Window)..(Mega + Window))
      \cup {Mega * k + d : k \in 1..3, d \in {0, 52428, 52429, 104857, 104858, 524288, 996147}}

\* n tenths written with one decimal.
Tenths(n) == NatText(n \div 10) \o <<".">> \o NatText(n % 10)

ToFixed1_Truncates(num, den) == Tenths((10 * num) \div den)

\* (num / den).toFixed(1): the integer number of tenths nearest to the
\* quotient, the larger one of two equally near; num / den is exact in a
\* double when den is a power of two.
ToFixed1(num, den) == Tenths((20 * num + den) \div (2 * den))

\* file-utils.ts:8-13
formatFileSize(bytes) ==
    IF bytes < 0 THEN <<"0", " ", "B">>
    ELSE IF bytes < 1024 THEN NatText(bytes) \o <<" ", "B">>
    ELSE IF bytes < 1024 * 1024 THEN ToFixed1(bytes, 1024) \o <<" ", "K", "B">>
    ELSE ToFixed1(bytes, 1024 * 1024) \o <<" ", "M", "B">>

FormatCall(bytes) == [op |-> "formatFileSize", pc |-> "called", bytes |-> bytes, result |-> <<>>]

\* file-utils.ts:8-13, the call returns.
FormatFileSizeReturn ==
    /\ lib.op = "formatFileSize"
    /\ lib.pc = "called"
    /\ lib' = [lib EXCEPT !.pc = "returned", !.result = formatFileSize(lib.bytes)]
    /\ UNCHANGED <<cl, wire, input, scan, serverSide>>

InitFormat ==
    /\ gen = GenInit
    /\ calls = <<>>
    /\ budget = MaxItems
    /\ wideLeft = TRUE
    /\ cl = HookInit
    /\ input = <<>>
    /\ wire = <<>>
    /\ scan = ScanIdle
    /\ \E bytes \in ByteCounts : lib = FormatCall(bytes)

NextFormat == FormatFileSizeReturn

SpecFormat == InitFormat /\ [][NextFormat]_vars

----------------------------------------------------------------------------
(***************************************************************************)
(* Properties of formatFileSize.                                           *)
(***************************************************************************)
FormatReturned == lib.op = "formatFileSize" /\ lib.pc = "returned"

\* text is bytes / unit written with one decimal, i.e. as a number of tenths
\* at most half a tenth away from the quotient, followed by the unit's name.
OneDecimal(text, bytes, unit, name) ==
    \E n \in ((10 * bytes) \div unit)..((10 * bytes) \div unit + 1) :
        /\ text = Tenths(n) \o name
        /\ 2 * (10 * bytes - n * unit) <= unit
        /\ 2 * (n * unit - 10 * bytes) <= unit

\* C22: negative -> "0 B"; 0..1023 -> "<n> B"; 1024..1048575 -> kilobytes
\* with one decimal and KB (1024 -> "1.0 KB", 1536 -> "1.5 KB"); 1048576 and
\* above -> megabytes with one decimal and MB (1048576 -> "1.0 MB").
C22_FormatByRange ==
    FormatReturned =>
        /\ lib.bytes < 0 => lib.result = <<"0", " ", "B">>
        /\ lib.bytes \in 0..1023 => lib.result = NatText(lib.bytes) \o <<" ", "B">>
        /\ lib.bytes \in 1024..1048575 => OneDecimal(lib.result, lib.bytes, Kilo, <<" ", "K", "B">>)
        /\ lib.bytes >= 1048576 => OneDecimal(lib.result, lib.bytes, Mega, <<" ", "M", "B">>)
        /\ lib.bytes = 1024 => lib.result = <<"1", ".", "0", " ", "K", "B">>
        /\ lib.bytes = 1536 => lib.result = <<"1", ".", "5", " ", "K", "B">>
        /\ lib.bytes = 1048576 => lib.result = <<"1", ".", "0", " ", "M", "B">>

\* C22: the call with 1996 bytes, whose quotient 1.949... lies between two
\* tenths, has returned "1.9 KB".
C22_Witness == FormatReturned /\ lib.bytes = 1996 /\ lib.result = <<"1", ".", "9", " ", "K", "B">>


----------------------------------------------------------------------------
(***************************************************************************)
(* The traversal against a remote that is a graph: a SHA names one listing *)
(* however often it is fetched.  Listings may name the same SHA several    *)
(* times and may refer back to an ancestor; every fetch may fail.  The     *)
(* graph is revealed as it is fetched.                                     *)
(***************************************************************************)
MaxFanout == 2
MaxEvents == 24

\* The objects of the graph: the root and two directories.
GraphShas == {CommitSha, "t1", "t2"}
GraphEntries == {Item("blob", "b1")} \cup {Item("tree", s) : s \in GraphShas \ {CommitSha}}

Unrevealed == [known |-> FALSE, tree |-> <<>>]
RemoteGraph(graph) == [op |-> "remote", pc |-> "serving", graph |-> graph]

\* What a fetch of sha can resolve with.
ListingsOf(sha) ==
    IF lib.graph[sha].known
    THEN {lib.graph[sha].tree}
    ELSE SeqsUpTo(GraphEntries, MaxFanout)

\* getTreeFiles(sha) resolves with the listing of sha.
Serve(sha, tree) ==
    /\ Settle("ok", tree)
    /\ lib' = [lib EXCEPT !.graph[sha] = [known |-> TRUE, tree |-> tree]]
    /\ UNCHANGED <<budget, wideLeft, clientSide>>

\* route.ts:85-91
RootTreeServed ==
    /\ gen.pc = "awaitRoot"
    /\ \E tree \in ListingsOf(CommitSha) :
          /\ Serve(CommitSha, tree)
          /\ LET g1 == [gen EXCEPT !.rootTree = tree]
             IN gen' = Yield(g1, StatusEvent(g1, "root_found", <<Len(tree)>>), "y_rootFound")

\* route.ts:157-159
SubTreeServed ==
    /\ gen.pc = "awaitSub"
    /\ \E tree \in ListingsOf(calls[Len(calls)].sha) :
          /\ Serve(calls[Len(calls)].sha, tree)
          /\ gen' = SubLoop([gen EXCEPT !.subTree = tree], 1)

InitGraph ==
    /\ gen = GenInit
    /\ calls = <<>>
    /\ budget = MaxItems
    /\ wideLeft = TRUE
    /\ lib = RemoteGraph([s \in GraphShas |-> Unrevealed])
    /\ cl = HookInit
    /\ wire = <<>>
    /\ input = <<>>
    /\ scan = ScanIdle

\* The event log of the model is capped; the traversal itself has no such cap.
Running == Len(gen.events) < MaxEvents

NextGraph ==
    /\ Running
    /\ \/ Start
       \/ GetBranchOk
       \/ GetBranchFail
       \/ ResumeBranchError
       \/ ResumeBranch
       \/ ResumeStarting
       \/ RootTreeServed
       \/ GetRootTreeFail
       \/ ResumeRootFound
       \/ ResumeRootFile
       \/ ResumeRootProcessed
       \/ ResumeDirsFound
       \/ ResumeBatch
       \/ ResumeDir
       \/ SubTreeServed
       \/ GetSubTreeFail
       \/ ResumeSubFile
       \/ ResumeFive
       \/ ResumeDirDone
       \/ ResumeWarning
       \/ ResumeBatchDone
       \/ ResumeMoreDirs
       \/ ResumeFetchError
       \/ ResumeComplete

SpecGraph == InitGraph /\ [][NextGraph]_vars

\* Every await settles and the consumer keeps pulling: a step that can be
\* taken is taken.
SpecGraphLive == SpecGraph /\ WF_vars(NextGraph)

----------------------------------------------------------------------------
(***************************************************************************)
(* Properties of the traversal of a graph.                                 *)
(***************************************************************************)
LastEvent == gen.events[Len(gen.events)]

Finished == Done /\ Len(gen.events) > 0 /\ IsTerminal(LastEvent)

\* The cap on the event log is never met: the runs checked are whole runs.
CapNotMet == Len(gen.events) < MaxEvents

\* C23: whatever the graph (shared tree SHAs, listings that refer back to an
\* ancestor) and whichever fetches fail, the traversal eventually emits its
\* terminal event and the generator finishes.
C23_Terminates == <>Finished

\* A finished traversal of a graph where the root lists t1 and t2, t1 lists
\* itself and t2, and the one fetch of t2 failed.
C23_Witness ==
    /\ Finished
    /\ lib.op = "remote"
    /\ RefsIn(lib.graph[CommitSha].tree, "t1") = 1
    /\ RefsIn(lib.graph[CommitSha].tree, "t2") = 1
    /\ RefsIn(lib.graph["t1"].tree, "t1") = 1
    /\ RefsIn(lib.graph["t1"].tree, "t2") = 1
    /\ \E i \in FailedSubCalls : calls[i].sha = "t2"

\* The SHAs whose fetch was attempted, and those whose fetch succeeded.
Attempted == {calls[i].sha : i \in {j \in DOMAIN calls : calls[j].op = "getTreeFiles"}}
Fetched == {calls[i].sha : i \in OkTreeCalls}

\* The entries of the listing of s.
Listed(s) == {lib.graph[s].tree[k] : k \in DOMAIN lib.graph[s].tree}
ListedBy(R) == UNION {Listed(s) : s \in R \cap Fetched}

\* The directories listed by the fetched directories of R, added to R.
Expand(R) == R \cup {e.sha : e \in {x \in ListedBy(R) : x.type = "tree"}}

\* What can be reached from the root through directories whose fetch succeeded
\* (a chain has no more directories than the graph).
ReachableTrees == Expand(Expand(Expand({CommitSha})))
ReachableBlobs == {e.sha : e \in {x \in ListedBy(ReachableTrees) : x.type = "blob"}}

Emitted == {gen.events[i].sha : i \in EventIdx(IsFile)}

Completed == Finished /\ IsComplete(LastEvent) /\ CommitSha \in Fetched

\* C24: when the traversal ends with complete after a successful root fetch,
\* every blob reachable from the root through successfully fetched directories
\* has been emitted, every directory reachable that way has had a fetch
\* attempted, and the frontier is empty.
C24_Complete ==
    Completed =>
        /\ ReachableBlobs \subseteq Emitted
        /\ ReachableTrees \subseteq Attempted
        /\ gen.treeFiles = <<>>

\* A completed traversal where the fetch of t1, the first directory of the
\* root, failed and the file, which the root does not list, was still found.
C24_Witness ==
    /\ Completed
    /\ "t1" \in Attempted \ Fetched
    /\ RefsIn(lib.graph[CommitSha].tree, "t1") = 1
    /\ lib.graph[CommitSha].tree[1].sha = "t1"
    /\ "b1" \notin {e.sha : e \in Listed(CommitSha)}
    /\ "b1" \in Emitted

----------------------------------------------------------------------------
(***************************************************************************)
(* The order of the remote calls of one traversal.                         *)
(***************************************************************************)
\* The path under which the traversal enqueues entry e of the listing that
\* call c resolved with (route.ts:97-100, 160-161, 180).
ChildPath(c, e) == IF c.sha = CommitSha THEN e.path ELSE c.path \o <<"/">> \o e.path

\* The positions in the listing of call i from which the directory of call j
\* was enqueued.
PositionsOf(i, j) ==
    {k \in DOMAIN calls[i].tree :
        /\ calls[i].tree[k].type = "tree"
        /\ calls[i].tree[k].sha = calls[j].sha
        /\ ChildPath(calls[i], calls[i].tree[k]) = calls[j].path}

\* The calls whose listing the directory of call j was enqueued from.
ParentsOf(j) == {i \in OkTreeCalls : i < j /\ PositionsOf(i, j) # {}}

Least(S) == CHOOSE n \in S : \A m \in S : n <= m

\* ParentsOf of the first n calls, as a sequence.
RECURSIVE ParentSets(_)
ParentSets(n) == IF n = 0 THEN <<>> ELSE Append(ParentSets(n - 1), ParentsOf(n))

\* The directory of call i was enqueued before the directory of call j.
EnqueuedBefore(parents, i, j) ==
    LET pi == Least(parents[i])
        pj == Least(parents[j])
    IN \/ pi < pj
       \/ pi = pj /\ Least(PositionsOf(pi, i)) < Least(PositionsOf(pj, j))

\* C25: a directory is fetched in the batch after the one that fetched the
\* listing it was discovered in (the root's directories in batch 1), all
\* fetches of a batch come before those of the next, and the fetches of one
\* batch are made in the order the directories were enqueued.
C25_GenerationalOrder ==
    LET parents == ParentSets(Len(calls)) IN
    /\ \A j \in SubCalls :
          /\ parents[j] # {}
          /\ calls[j].batch = calls[Least(parents[j])].batch + 1
    /\ \A i, j \in SubCalls :
          i < j => /\ calls[i].batch <= calls[j].batch
                   /\ calls[i].batch = calls[j].batch => EnqueuedBefore(parents, i, j)

\* Two directories of the root were fetched in batch 1 in the order of the
\* listing, then a directory found in the first of them in batch 2.
C25_Witness ==
    /\ Len(calls) >= 5
    /\ calls[3].batch = 1 /\ calls[4].batch = 1 /\ calls[5].batch = 2
    /\ ParentsOf(5) = {3}
    /\ calls[3].status = "ok" /\ calls[4].status \in {"ok", "fail"}

\* The '/'-join of the segments from the root to the directory of call j.
RECURSIVE JoinedPath(_, _)
JoinedPath(parents, j) ==
    IF calls[j].sha = CommitSha \/ parents[j] = {} THEN <<>>
    ELSE LET p == Least(parents[j]) IN
         IF calls[p].sha = CommitSha THEN SegmentOf(calls[j].sha)
         ELSE JoinedPath(parents, p) \o <<"/">> \o SegmentOf(calls[j].sha)

\* Queue entry q was enqueued from a fetched listing under the path of that
\* listing's directory.
EnqueuedWithPath(q) ==
    \E i \in OkTreeCalls : \E n \in DOMAIN calls[i].tree :
        /\ calls[i].tree[n].type = "tree"
        /\ calls[i].tree[n].sha = q.sha
        /\ q.path = ChildPath(calls[i], calls[i].tree[n])

\* C26: a file event of the root carries the blob's own segment; a file event
\* of a directory carries the directory's path, "/", and the blob's segment;
\* the path of every fetched directory is the '/'-join of the segments from
\* the root down to it, and every enqueued directory carries the path of the
\* directory that lists it, "/", and its own segment.
C26_PathsJoined ==
    LET parents == ParentSets(Len(calls)) IN
    /\ gen.pc = "y_rootFile" => LastEvent.path = SegmentOf(LastEvent.sha)
    /\ gen.pc = "y_subFile" =>
          LastEvent.path = calls[Len(calls)].path \o <<"/">> \o SegmentOf(LastEvent.sha)
    /\ \A j \in SubCalls : parents[j] # {} /\ calls[j].path = JoinedPath(parents, j)
    /\ \A k \in DOMAIN gen.treeFiles : EnqueuedWithPath(gen.treeFiles[k])
    /\ \A k \in DOMAIN gen.currentTreeBatch : EnqueuedWithPath(gen.currentTreeBatch[k])

\* A file has just been emitted from a directory two levels below the root:
\* its path has three segments.
C26_Witness ==
    /\ gen.pc = "y_subFile"
    /\ LastEvent.sha = "b2"
    /\ calls[Len(calls)].batch = 2
    /\ LastEvent.path = SegmentOf("t1") \o <<"/">> \o SegmentOf("t2") \o <<"/">> \o SegmentOf("b2")

InFlight == {i \in DOMAIN calls : calls[i].status = "pending"}
Awaiting == gen.pc \in {"awaitBranch", "awaitRoot", "awaitSub"}

\* C27: at most one remote call is in flight, it is the one made last, and the
\* generator is suspended at its await until it returns or fails; so a call is
\* only made when every earlier one has settled.
C27_OneCallInFlight ==
    /\ InFlight \subseteq {Len(calls)}
    /\ InFlight # {} <=> Awaiting

\* The fourth call is in flight after the third one failed.
C27_Witness ==
    /\ Len(calls) = 4
    /\ InFlight = {4}
    /\ calls[3].status = "fail"

----------------------------------------------------------------------------
(***************************************************************************)
(* Properties of iteratorToStream.                                         *)
(***************************************************************************)
Streaming == lib.op = "iteratorToStream"

\* What holds of the pulls, the events and the enqueued chunks in a state.
PulledOnly ==
    /\ lib.pulls = 0 => calls = <<>> /\ gen.events = <<>>
    /\ Len(gen.events) <= lib.pulls
    /\ Len(lib.sent) <= Len(gen.events)
    /\ lib.sent = SubSeq(gen.events, 1, Len(lib.sent))
    /\ lib.pc = "idle" => lib.sent = gen.events
    /\ lib.closed => Done /\ lib.sent = gen.events /\ lib.pulls = Len(gen.events) + 1

\* C28: the generator makes no remote call before the first pull and has never
\* yielded more events than there were pulls; the chunks enqueued are the
\* events yielded, each once and in the order of production; the stream is
\* closed after the last event, and once closed it is not pulled, fed or
\* closed again.
C28_PullDriven ==
    /\ [](Streaming => PulledOnly)
    /\ [][Streaming /\ lib.closed => lib' = lib]_vars

\* The stream is closed after several events were enqueued, a remote call
\* among them having failed.
C28_Witness ==
    /\ Streaming
    /\ lib.closed
    /\ Len(lib.sent) >= 5
    /\ \E i \in DOMAIN calls : calls[i].status = "fail"

----------------------------------------------------------------------------
(***************************************************************************)
(* useRepositoryFiles over its renders: the effect runs after the first    *)
(* render and after every render in which one of its dependencies changed. *)
(* processBuffer is one of them; it is made anew when processLine is, and  *)
(* processLine when totalDirectories or processedDirectories changed       *)
(* (stream-processing.ts:313, 328, 435).  The effect has no cleanup, so a  *)
(* request that was started runs on.  Each request has its own reader,     *)
(* buffer and sizes; the state and fileCountRef are the hook's.            *)
(***************************************************************************)
MaxFlows == 3

\* The events of the response, one per chunk: a file of the root, the status
\* that announces one directory, and the completion.
ResponseEvents ==
    <<Item("blob", "b1"),
      StatusEvent([GenInit EXCEPT !.fileCounter = 1], "dirs_found", <<1>>),
      CompleteEvent([GenInit EXCEPT !.fileCounter = 1, !.treeCounter = 1])>>

ResponseChunks == [i \in DOMAIN ResponseEvents |-> streamResponse(ResponseEvents[i])]

\* What belongs to one run of fetchRepositoryFiles.
FlowOf(c, next) ==
    [phase |-> c.phase, buffer |-> c.buffer, held |-> c.held,
     currentTotalSize |-> c.currentTotalSize,
     closedTotalDirectories |-> c.closedTotalDirectories,
     closedProcessedDirectories |-> c.closedProcessedDirectories,
     next |-> next]

\* The hook's state with the locals of run f in scope.
With(c, f) ==
    [c EXCEPT !.phase = f.phase, !.buffer = f.buffer, !.held = f.held,
              !.currentTotalSize = f.currentTotalSize,
              !.closedTotalDirectories = f.closedTotalDirectories,
              !.closedProcessedDirectories = f.closedProcessedDirectories]

\* The hook's state alone.
Shared(c) ==
    [c EXCEPT !.phase = HookInit.phase, !.buffer = HookInit.buffer, !.held = HookInit.held,
              !.currentTotalSize = HookInit.currentTotalSize,
              !.closedTotalDirectories = HookInit.closedTotalDirectories,
              !.closedProcessedDirectories = HookInit.closedProcessedDirectories]

\* The values processLine depends on (stream-processing.ts:313).
Deps(c) == <<c.totalDirectories, c.processedDirectories>>

HookMounted == [op |-> "useRepositoryFiles", pc |-> "rendered", flows |-> <<>>, deps |-> Deps(HookInit)]

\* One run of fetchRepositoryFiles has moved on to state c.
FlowStep(i, c, next) ==
    /\ cl' = Shared(c)
    /\ lib' = [lib EXCEPT !.flows[i] = FlowOf(c, next)]
    /\ UNCHANGED <<wire, input, scan, serverSide>>

\* stream-processing.ts:364-435: a render is committed whose processBuffer
\* differs from that of the last effect run (or it is the first render), and
\* the effect runs.
EffectRuns ==
    /\ lib.op = "useRepositoryFiles"
    /\ Len(lib.flows) < MaxFlows
    /\ lib.flows = <<>> \/ lib.deps # Deps(cl)
    /\ cl' = Shared(StartFetch(cl))
    /\ lib' = [lib EXCEPT !.flows = Append(@, FlowOf(StartFetch(cl), 1)), !.deps = Deps(cl)]
    /\ UNCHANGED <<wire, input, scan, serverSide>>

\* stream-processing.ts:384-410, the response of run i is ok and has a body.
FlowResponds(i) ==
    /\ lib.flows[i].phase = "fetching"
    /\ FlowStep(i, [With(cl, lib.flows[i]) EXCEPT !.phase = "reading", !.buffer = <<>>, !.held = FALSE], 1)

\* stream-processing.ts:412-425, reader.read() of run i resolves with a chunk.
FlowReads(i) ==
    /\ lib.flows[i].phase = "reading"
    /\ lib.flows[i].next <= Len(ResponseChunks)
    /\ FlowStep(i, Received(With(cl, lib.flows[i]),
                            Decode(ResponseChunks[lib.flows[i].next], lib.flows[i].held), FALSE),
                lib.flows[i].next + 1)

\* stream-processing.ts:412-418, reader.read() of run i resolves with done.
FlowDone(i) ==
    /\ lib.flows[i].phase = "reading"
    /\ lib.flows[i].next > Len(ResponseChunks)
    /\ LET c == With(cl, lib.flows[i]) IN
       FlowStep(i, [processRemainingBuffer([c EXCEPT !.isLoading = FALSE], c.buffer)
                       EXCEPT !.totalRepoSize = c.currentTotalSize, !.phase = "closed"],
                lib.flows[i].next)

InitHook ==
    /\ gen = GenInit
    /\ calls = <<>>
    /\ budget = MaxItems
    /\ wideLeft = TRUE
    /\ lib = HookMounted
    /\ cl = HookInit
    /\ wire = <<>>
    /\ input = <<>>
    /\ scan = ScanIdle

NextHook ==
    \/ EffectRuns
    \/ \E i \in DOMAIN lib.flows : FlowResponds(i)
    \/ \E i \in DOMAIN lib.flows : FlowReads(i)
    \/ \E i \in DOMAIN lib.flows : FlowDone(i)

SpecHook == InitHook /\ [][NextHook]_vars

----------------------------------------------------------------------------
(***************************************************************************)
(* Properties of useRepositoryFiles over its renders.                      *)
(***************************************************************************)
Hooked == lib.op = "useRepositoryFiles"

\* The runs of fetchRepositoryFiles whose response is still awaited or read.
InProgress == {i \in DOMAIN lib.flows : lib.flows[i].phase \in {"fetching", "reading"}}

\* C29: for one page load one streaming request is started: handling an event
\* never starts a second request, so no two responses are read side by side.
C29_OneRequest == Hooked => Len(lib.flows) <= 1 /\ Cardinality(InProgress) <= 1

\* The aggregate state as a request should find it.
Fresh(c) ==
    /\ c.files = <<>>
    /\ c.branchName = JsStr(<<>>)
    /\ c.error = JsNull
    /\ c.totalFilesNum = JsNull
    /\ c.fileCountRef = JsNum(0, 0)

FetchStarts == Hooked /\ Len(lib'.flows) > Len(lib.flows)

\* C30: whenever fetchRepositoryFiles starts, it leaves the file list and the
\* branch name empty, the error cleared, the displayed file count unset and
\* the file count behind the ratchet at zero.
C30_FreshAtStart == [][FetchStarts => Fresh(cl')]_vars

\* The displayed count stands above the one file of the repository: a count
\* carried over from an earlier request was added to.
CountCarriedOver == Hooked /\ cl.totalFilesNum = JsNum(2, 0)

----------------------------------------------------------------------------
(***************************************************************************)
(* The hook's handling of the events of the traversal, one event a chunk.  *)
(***************************************************************************)
\* The event the client is about to read: the one enqueued last.
EventRead == lib.sent[Len(lib.sent)]

\* The step in which the client reads and handles an event of these types.
Handles(types) ==
    /\ Streaming
    /\ wire # <<>>
    /\ wire' = <<>>
    /\ EventRead.type \in types

\* The displayed file count, nothing displayed counting as zero.
Displayed(c) == IF c.totalFilesNum = JsNull THEN JsNum(0, 0) ELSE c.totalFilesNum

\* The status text the hook shows for the event.
StatusShown(ev) ==
    IF ev.type = "warning"
    THEN JsStr(<<"W", "a", "r", "n", "i", "n", "g", ":", " ">> \o MessageOf(ev))
    ELSE JsStr(MessageOf(ev))

\* Nothing but the status text and the directory counters changes.
OnlyStatusChanged ==
    /\ cl'.totalFilesNum = cl.totalFilesNum
    /\ cl'.files = cl.files
    /\ cl'.branchName = cl.branchName
    /\ cl'.error = cl.error
    /\ cl'.isLoading = cl.isLoading

StatusHandled ==
    /\ cl'.currentStatus = StatusShown(EventRead)
    /\ IF NumGt(JsNum(EventRead.files_processed, 0), Displayed(cl))
       THEN cl'.totalFilesNum = JsNum(EventRead.files_processed, 0)
       ELSE OnlyStatusChanged

\* C31: handling a status or warning event sets the displayed status to its
\* message; the displayed file count becomes the event's files_processed when
\* that is greater than the displayed count, and otherwise the count, the
\* files, the branch, the error and the loading flag stay as they are.
C31_StatusRatchet == [][Handles({"status", "warning"}) => StatusHandled]_vars

\* The error text the hook shows for an error event.
ErrorShown(ev) ==
    JsStr(<<"A", "P", "I", " ", "E", "r", "r", "o", "r", ":", " ">> \o MessageOf(ev))

CompleteHandled ==
    /\ cl'.totalFilesNum = JsNum(EventRead.total_files, 0)
    /\ cl'.isLoading = FALSE

ErrorHandled ==
    /\ cl'.error = ErrorShown(EventRead)
    /\ cl'.isLoading = FALSE
    /\ cl'.totalFilesNum = cl.totalFilesNum
    /\ cl'.files = cl.files
    /\ cl'.branchName = cl.branchName

ErrorKept == (Streaming /\ cl.error # JsNull) => cl'.error = cl.error

\* C32: handling a complete event sets the displayed file count to its
\* total_files and ends loading; handling an error event sets the error text
\* and ends loading, with the file count, the files and the branch as they
\* were; and an error that is set is not changed by any later step of the
\* request.
C32_TerminalEvents ==
    [][/\ Handles({"complete"}) => CompleteHandled
       /\ Handles({"error"}) => ErrorHandled
       /\ ErrorKept]_vars

\* The root fetch failed: the client has handled the error event and then the
\* complete event, and the error is still shown.
C32_Witness ==
    /\ Streaming
    /\ lib.closed
    /\ wire = <<>>
    /\ Len(gen.events) >= 2
    /\ gen.events[Len(gen.events)].type = "complete"
    /\ gen.events[Len(gen.events) - 1].type = "error"
    /\ cl.error = ErrorShown(gen.events[Len(gen.events) - 1])
    /\ cl.totalFilesNum = JsNum(0, 0)
    /\ cl.isLoading = FALSE

----------------------------------------------------------------------------
(***************************************************************************)
(* Further properties of processJsonLine.                                  *)
(***************************************************************************)
\* The line is a status object whose files_processed is a number.
StructuredStatus(in) ==
    /\ in.valid
    /\ in.val.k = "obj"
    /\ TypeIs(in.val, <<"s", "t", "a", "t", "u", "s">>)
    /\ IsNumber(Get(in.val, K_files_processed))

\* The counts handed to onStatus by the call.
CountsHanded == {lib.result.calls[i].args[2] :
                    i \in {j \in DOMAIN lib.result.calls : lib.result.calls[j].cb = "onStatus"}}

\* C33: for a status line with a numeric files_processed, the count handed to
\* onStatus is that number or none at all, never a different number taken
\* from the text of the message.
C33_StructuredCountRules ==
    (LineReturned /\ StructuredStatus(lib.line)) =>
        CountsHanded \subseteq {Get(lib.line.val, K_files_processed), Undefined}

----------------------------------------------------------------------------
(***************************************************************************)
(* extractValidJson as a function of its text: every text of braces,       *)
(* quotes and backslashes up to MaxText characters, and the objects and    *)
(* spans of the scanner's buffers, alone and in pairs.                     *)
(***************************************************************************)
MaxText == 6

ShortTexts == SeqsUpTo({"{", "}", "\"", "\\"}, MaxText)
ExtractPieces == ScanObjects \cup ScanSpans \cup {<<>>, <<"}">>, <<" ", "x">>}
ExtractInputs == ShortTexts \cup {a \o b : a \in ExtractPieces, b \in ExtractPieces}

\* stream-processing.ts:51, extractValidJson is called with a text.
ExtractCall(str) == [op |-> "extractValidJson", pc |-> "called", str |-> str, result |-> NoText]

\* stream-processing.ts:52-74, the call runs and returns.
ExtractValidJsonReturn ==
    /\ lib.op = "extractValidJson"
    /\ lib.pc = "called"
    /\ lib' = [lib EXCEPT !.pc = "returned", !.result = extractValidJson(lib.str)]
    /\ UNCHANGED <<cl, wire, input, scan, serverSide>>

InitExtract ==
    /\ gen = GenInit
    /\ calls = <<>>
    /\ budget = MaxItems
    /\ wideLeft = TRUE
    /\ cl = HookInit
    /\ input = <<>>
    /\ wire = <<>>
    /\ scan = ScanIdle
    /\ \E str \in ExtractInputs : lib = ExtractCall(str)

NextExtract == ExtractValidJsonReturn

SpecExtract == InitExtract /\ [][NextExtract]_vars

----------------------------------------------------------------------------
(***************************************************************************)
(* Properties of extractValidJson.  The quoted strings of a text are told  *)
(* from the runs of backslashes before its quotes, not by scanning.        *)
(***************************************************************************)
ExtractReturned == lib.op = "extractValidJson" /\ lib.pc = "returned"

\* How many backslashes stand directly before position q, after position o.
BackslashRun(str, o, q) ==
    Cardinality({n \in 1..(q - o - 1) : \A k \in 1..n : str[q - k] = "\\"})

\* The quotes after o that end the string opened at o: those with an even
\* run of backslashes before them.
Closers(str, o) ==
    {q \in (o + 1)..Len(str) : str[q] = "\"" /\ BackslashRun(str, o, q) % 2 = 0}

\* The strings of the text from position from on, each as <<opening quote,
\* closing quote>>; a string that is not closed runs past the end.
RECURSIVE StringSpans(_, _)
StringSpans(str, from) ==
    LET openers == {o \in from..Len(str) : str[o] = "\""} IN
    IF openers = {} THEN {}
    ELSE LET o == Leftmost(openers) IN
         IF Closers(str, o) = {} THEN {<<o, Len(str) + 1>>}
         ELSE {<<o, Leftmost(Closers(str, o))>>} \cup StringSpans(str, Leftmost(Closers(str, o)) + 1)

Quoted(str, i) == \E sp \in StringSpans(str, 1) : sp[1] < i /\ i < sp[2]

\* The brace depth after position i: braces outside quoted strings only.
DepthAt(str, i) ==
    Cardinality({j \in 1..i : str[j] = "{" /\ ~Quoted(str, j)})
      - Cardinality({j \in 1..i : str[j] = "}" /\ ~Quoted(str, j)})

\* The closing braces outside strings that bring the depth to zero.
ZeroClosers(str) == {i \in DOMAIN str : str[i] = "}" /\ ~Quoted(str, i) /\ DepthAt(str, i) = 0}

ExpectedExtract(str) ==
    IF ZeroClosers(str) = {} THEN NoText
    ELSE IF JsonParse(Prefix(str, Leftmost(ZeroClosers(str)))).ok
         THEN SomeText(Prefix(str, Leftmost(ZeroClosers(str))))
         ELSE NoText

\* C34: extractValidJson returns the prefix that ends at the first closing
\* brace outside a quoted string that brings the brace depth to zero, when
\* that prefix parses as JSON, and null otherwise; a quote after an odd run
\* of backslashes does not end its string.
C34_ShortestBalancedPrefix == ExtractReturned => lib.result = ExpectedExtract(lib.str)

\* The object whose string holds an escaped quote and is followed by another
\* object has been returned alone.
C34_Witness ==
    /\ ExtractReturned
    /\ lib.result = SomeText(<<"{", "\"", "q", "\"", ":", "\"", "\\", "\"", "\"", "}">>)
    /\ Len(lib.str) > Len(lib.result.text)

----------------------------------------------------------------------------
(***************************************************************************)
(* Properties of the buffer of fetchRepositoryFiles between two reads.     *)
(***************************************************************************)
\* The text decoded from the bytes read so far.
ReceivedText == Decode(Prefix(input, Len(input) - Len(wire)), FALSE).text

\* The positions of the newlines of a text, and the last of them (0 if none).
NewlinesOf(t) == {i \in DOMAIN t : t[i] = "\n"}
LastNewline(t) == IF NewlinesOf(t) = {} THEN 0 ELSE CHOOSE i \in NewlinesOf(t) : \A j \in NewlinesOf(t) : j <= i

\* The line that the newline at position i ends.
LineEndingAt(t, i) ==
    LET before == {j \in NewlinesOf(t) : j < i}
        from == IF before = {} THEN 0 ELSE CHOOSE j \in before : \A k \in before : k <= j
    IN SubSeq(t, from + 1, i - 1)

\* The lines ended by the newlines at positions lo..hi, in their order.
RECURSIVE TerminatedLines(_, _, _)
TerminatedLines(t, lo, hi) ==
    IF lo > hi THEN <<>>
    ELSE IF lo = hi THEN (IF t[lo] = "\n" THEN <<LineEndingAt(t, lo)>> ELSE <<>>)
    ELSE TerminatedLines(t, lo, (lo + hi) \div 2) \o TerminatedLines(t, (lo + hi) \div 2 + 1, hi)

NonBlank(line) == TrimNonEmpty(line)

BetweenReads == cl.phase = "reading"

\* C35: between two reads the residual buffer holds no newline and is the
\* text received after the last newline, and the lines handed to processLine
\* are the non-blank lines that a newline has ended, each once and in the
\* order they arrived; nothing of the residual is among them.
C35_ResidualAndLines ==
    BetweenReads =>
        /\ NewlinesOf(cl.buffer) = {}
        /\ cl.buffer = Slice(ReceivedText, LastNewline(ReceivedText))
        /\ cl.delivered = SelectSeq(TerminatedLines(ReceivedText, 1, Len(ReceivedText)), NonBlank)

\* A chunk boundary fell inside a line, a line was delivered, bytes of the
\* next line wait in the residual, and more is to come.
C35_Witness ==
    /\ BetweenReads
    /\ cl.cutInLine
    /\ Len(cl.delivered) >= 1
    /\ cl.buffer # <<>>
    /\ wire # <<>>

----------------------------------------------------------------------------
(***************************************************************************)
(* Properties of the interim statuses of a directory.                      *)
(***************************************************************************)
IsSite(e, site) == e.type = "status" /\ e.site = site

\* The events that open the expansion of a directory.
DirOpenings == {p \in DOMAIN gen.events : IsSite(gen.events[p], "dir")}

\* The events that close the expansion of a directory: its "Completed
\* directory" status or its warning.
DirEnds ==
    {q \in DOMAIN gen.events : IsSite(gen.events[q], "dir_done") \/ IsWarning(gen.events[q])}

\* The position of the event among ends that closes the expansion opened at
\* p; past the end while it runs.
ClosingAmong(ends, p) ==
    LET after == {q \in ends : q > p}
    IN IF after = {} THEN Len(gen.events) + 1 ELSE Leftmost(after)

DirClosing(p) == ClosingAmong(DirEnds, p)

\* The file events in positions lo..hi.
FilesWithin(lo, hi) == Cardinality({k \in lo..hi : IsFile(gen.events[k])})

\* The numbers of file events before each position: the n-th entry counts
\* those among the first n - 1 events.
RECURSIVE FileCounts(_, _)
FileCounts(events, n) ==
    IF n = 0 THEN <<0>>
    ELSE LET before == FileCounts(events, n - 1)
         IN Append(before, before[n] + (IF IsFile(events[n]) THEN 1 ELSE 0))

FilesBefore == FileCounts(gen.events, Len(gen.events))

\* The file at position i is the 5th, 10th, ... of the directory opened at p,
\* c being the numbers of files before each position.
FifthFile(c, p, i) ==
    IsFile(gen.events[i]) /\ (c[i + 1] - c[p]) % StatusEvery = 0

\* In the events emitted so far, the event after each 5th, 10th, ... file of
\* a directory is an interim status, and an interim status stands nowhere else.
FifthFilesFollowed ==
    LET c == FilesBefore
        ends == DirEnds
    IN
    \A p \in DirOpenings : \A i \in (p + 1)..(ClosingAmong(ends, p) - 1) :
        /\ (FifthFile(c, p, i) /\ i < Len(gen.events)) =>
              /\ IsSite(gen.events[i + 1], "five")
              /\ gen.events[i + 1].args = <<c[i + 1] - c[p], c[i + 1]>>
              /\ gen.events[i + 1].files_processed = c[i + 1]
        /\ IsSite(gen.events[i], "five") => FifthFile(c, p, i - 1)
        /\ IsFile(gen.events[i]) \/ IsSite(gen.events[i], "five")

\* C36: at every moment of the stream, while a directory is expanded, the
\* event after each 5th, 10th, ... file emitted since its "Processing
\* directory" status is an interim status with that number and the running
\* total, and an interim status stands nowhere else; files of earlier
\* directories do not count.
C36_EveryFifthFile == []FifthFilesFollowed

\* A directory that emitted files was completed, and a later directory has
\* emitted its fifth file and the interim status, the total being larger than
\* five.
C36_Witness ==
    \E p1, p2 \in DirOpenings :
        /\ p1 < p2
        /\ DirClosing(p1) < p2
        /\ FilesWithin(p1, DirClosing(p1)) >= 1
        /\ \E i \in (p2 + 1)..(DirClosing(p2) - 1) :
              /\ IsSite(gen.events[i], "five")
              /\ gen.events[i].files_processed > StatusEvery

\* A directory has emitted its tenth file and the second interim status.
TenthFileSeen ==
    \E p \in DirOpenings : \E i \in (p + 1)..(DirClosing(p) - 1) :
        IsSite(gen.events[i], "five") /\ FilesWithin(p, i) = 2 * StatusEvery

----------------------------------------------------------------------------
(***************************************************************************)
(* Properties of the counts the events carry.                              *)
(***************************************************************************)
\* The events that carry a file count, and the count each carries.
CarriesCount(e) == e.type \in {"status", "warning", "complete"}
CountOf(e) == IF e.type = "complete" THEN e.total_files ELSE e.files_processed

\* In the events emitted so far, every count is the number of file events
\* before it, and the counts do not decrease.
CountsAreFilesBefore ==
    LET c == FilesBefore
        carrying == SelectSeq(gen.events, CarriesCount)
    IN /\ \A i \in DOMAIN gen.events :
             CarriesCount(gen.events[i]) => CountOf(gen.events[i]) = c[i]
       /\ \A k \in 1..(Len(carrying) - 1) : CountOf(carrying[k]) <= CountOf(carrying[k + 1])

\* C37: at every moment of the stream, the file count of every status,
\* warning and complete event is the number of file events emitted before it
\* in the stream, so the counts never decrease along the stream.
C37_CountsFilesBefore == []CountsAreFilesBefore

\* A finished traversal with files of the root and of directories, a warning
\* after the first file and a complete event that counts them all.
C37_Witness ==
    /\ Done
    /\ IsComplete(gen.events[Len(gen.events)])
    /\ gen.events[Len(gen.events)].total_files > StatusEvery
    /\ \E w \in EventIdx(IsWarning) : gen.events[w].files_processed >= 1
    /\ \E i \in DOMAIN gen.events : IsSite(gen.events[i], "root_processed")

----------------------------------------------------------------------------
(***************************************************************************)
(* Properties of the loading flag.                                         *)
(***************************************************************************)
\* Run i of fetchRepositoryFiles has seen the end of its response, or failed.
Ended(i) == Hooked /\ i \in DOMAIN lib.flows /\ lib.flows[i].phase \in {"closed", "failed"}

\* C38: from the moment the response stream of a request of the hook has
\* ended, or its fetch has failed, the loading flag is false and remains
\* false: nothing sets it back to true for the same owner and repository.
\* A run that has ended stays ended, so the flag is false in every state in
\* which some run has ended.
C38_LoadingSettles == \A i \in 1..MaxFlows : Ended(i) => ~cl.isLoading

\* The loading flag is set again after a response of the same page load was
\* read to its end.
LoadingAgain == \E i \in 1..MaxFlows : Ended(i) /\ cl.isLoading

\* With one run of fetchRepositoryFiles the flag stays false after the end.
SingleRunSettles == cl.phase \in {"closed", "failed"} => ~cl.isLoading

----------------------------------------------------------------------------
(***************************************************************************)
(* The scanner under fair scheduling: tryFixAndParseMultipleJsons is       *)
(* synchronous code, each of its steps is taken once it can be.  The weak  *)
(* fairness of ScanStep is written out, its enabling condition being its   *)
(* guard as long as an iteration changes the remaining text.               *)
(***************************************************************************)
ScanStepEnabled == scan.pc = "loop" /\ ScanContinues(scan.remaining, scan.startPos)

SpecScannerLive ==
    /\ SpecScanner
    /\ WF_vars(ScanStart)
    /\ WF_vars(ScanReturn)
    /\ ([]<>(~ScanStepEnabled) \/ []<><<ScanStep>>_vars)

\* How much of the buffer the scanner has removed.
Consumed == Len(scan.buffer) - Len(scan.remaining)

\* The texts from the k-th on stand in buffer one after the other, none
\* before position from, none overlapping the one before it.
RECURSIVE PlacedFrom(_, _, _, _)
PlacedFrom(buffer, from, texts, k) ==
    IF k > Len(texts) THEN TRUE
    ELSE \E p \in from..(Len(buffer) - Len(texts[k]) + 1) :
            /\ SubSeq(buffer, p, p + Len(texts[k]) - 1) = texts[k]
            /\ PlacedFrom(buffer, p + Len(texts[k]), texts, k + 1)

Scanning == scan.pc \in {"loop", "done"}

\* What was handed to onJson parses and stands, in the order of the reports
\* and without overlap, in the part of the buffer already removed.
ReportsInPlace ==
    Scanning =>
        /\ \A k \in DOMAIN scan.reported : JsonParse(scan.reported[k]).ok
        /\ PlacedFrom(Prefix(scan.buffer, Consumed), 1, scan.reported, 1)
        /\ scan.remaining = Slice(scan.buffer, Consumed)

\* The iteration the loop is about to run leaves less text than it finds.
IterationShrinks ==
    ScanStepEnabled => Len(ScanIteration(scan.remaining).remaining) < Len(scan.remaining)

\* C39: every text tryFixAndParseMultipleJsons hands to onJson is a piece of
\* the buffer that parses as JSON, the pieces lie in the buffer in the order
\* of the reports without overlapping, every iteration removes at least one
\* character of the remaining text, and the scan ends.
C39_ScanInOrderAndEnds == [](ReportsInPlace /\ IterationShrinks) /\ <>ScanDone

\* A scan has ended that reported two objects and dropped an invalid span.
C39_Witness ==
    /\ ScanDone
    /\ HasSpan(scan.parts)
    /\ Len(scan.reported) >= 2
    /\ Len(scan.reported[1]) + Len(scan.reported[2]) < Len(scan.buffer)

====
